---- MODULE Spec2Model ----
(***************************************************************************)
(* The forecasting engine of the course-bidding tool: generateForecast and *)
(* the functions it calls (src/unnamed/part_000, lines 1122-2598).         *)
(*                                                                         *)
(* Numbers.  The engine computes in IEEE doubles.  Here a real number r is *)
(* the integer r * SC (four decimal places, truncated), and the error      *)
(* function works at eight places (S8).  The one double value that is not  *)
(* a real number and that the engine can produce from finite input, NaN    *)
(* (0/0 when every weight of a phase is 0), is the value NaN below.        *)
(***************************************************************************)
EXTENDS Integers, Sequences, FiniteSets, TLC

\* ------------------------------------------------------------------------
\* Fixed-point arithmetic
\* ------------------------------------------------------------------------
SC == 10000
S8 == SC * SC
NaN == 0 - (2 * S8)

Abs(a) == IF a < 0 THEN 0 - a ELSE a
Max(a, b) == IF a >= b THEN a ELSE b
Min(a, b) == IF a <= b THEN a ELSE b
Sgn(a) == IF a < 0 THEN 0 - 1 ELSE 1

\* a * b / SC for a, b >= 0, without leaving 32 bits
MulN(a, b) ==
    LET ah == a \div SC
        al == a % SC
        bh == b \div SC
        bl == b % SC
    IN  ah * bh * SC + ah * bl + al * bh + (al * bl) \div SC

Mul(a, b) == Sgn(a) * Sgn(b) * MulN(Abs(a), Abs(b))

\* a * SC / b for a >= 0 and 0 < b < 2000 SC, by long division two digits at
\* a time
DivN(a, b) ==
    LET q0 == a \div b
        r0 == a % b
        q1 == (r0 * 100) \div b
        r1 == (r0 * 100) % b
        q2 == (r1 * 100) \div b
    IN  q0 * SC + q1 * 100 + q2

Div(a, b) == Sgn(a) * Sgn(b) * DivN(Abs(a), Abs(b))

\* Math.round of a fixed-point number: the nearest integer, halves upward
Round(a) == (a + SC \div 2) \div SC

\* an integer as a fixed-point number
Fx(n) == n * SC

\* ------------------------------------------------------------------------
\* Math.exp, Math.log, Math.sqrt, Math.tanh, Math.pow on fixed-point numbers
\* ------------------------------------------------------------------------
LN2 == 6931
LN2x8 == 69314718
SQRT2 == 14142

\* e^r for 0 <= r < ln 2, by the Taylor series (Horner form)
ExpFrac(r) ==
    LET h7 == SC + r \div 7
        h6 == SC + MulN(r, h7) \div 6
        h5 == SC + MulN(r, h6) \div 5
        h4 == SC + MulN(r, h5) \div 4
        h3 == SC + MulN(r, h4) \div 3
        h2 == SC + MulN(r, h3) \div 2
    IN  SC + MulN(r, h2)

\* Math.exp.  A double underflows to exactly 0 below e^-745; the arguments the
\* engine passes are either within a few units of 0 or (an unparsed term)
\* below -1000, so 0 is returned below -20, where four places show 0 anyway.
Exp(x) ==
    IF x < 0 - Fx(20) THEN 0
    ELSE LET k == x \div LN2
             r == x - k * LN2
         IN  IF k >= 0 THEN ExpFrac(r) * (2 ^ k) ELSE ExpFrac(r) \div (2 ^ (0 - k))

\* the k with SC * 2^k <= x < SC * 2^(k+1), for x >= SC
RECURSIVE Log2Floor(_)
Log2Floor(x) == IF x < 2 * SC THEN 0 ELSE 1 + Log2Floor(x \div 2)

\* ln m for SC <= m < 2 SC: 2 atanh((m - 1) / (m + 1))
LnMant(m) ==
    LET s  == DivN(m - SC, m + SC)
        s2 == MulN(s, s)
        t9 == s2 \div 9
        t7 == MulN(s2, SC \div 7 + t9)
        t5 == MulN(s2, SC \div 5 + t7)
        t3 == MulN(s2, SC \div 3 + t5)
    IN  2 * MulN(s, SC + t3)

\* Math.log for x >= 1 (every logarithm the engine takes is of a number >= 1)
Ln(x) ==
    LET k == Log2Floor(x)
    IN  (k * LN2x8) \div SC + LnMant(x \div (2 ^ k))

\* Math.sqrt: Newton's iteration downward from a start above the root
RECURSIVE SqrtIter(_, _)
SqrtIter(x, y) ==
    LET y2 == (y + DivN(x, y)) \div 2
    IN  IF y2 >= y THEN y ELSE SqrtIter(x, y2)

Sqrt(x) == IF x <= 0 THEN 0 ELSE SqrtIter(x, Min(Max(x, SC), 500 * SC))

\* Math.tanh
Tanh(u) ==
    LET e2 == Exp(2 * u)
    IN  Div(e2 - SC, e2 + SC)

\* eight-place product and e^-y, for the error function (0 <= a, b < 4.6)
Mul8(a, b) ==
    LET ah == a \div SC
        al == a % SC
        bh == b \div SC
        bl == b % SC
    IN  ah * bh + (ah * bl + al * bh) \div SC + (al * bl) \div S8

ExpFrac8(r) ==
    LET h10 == S8 + r \div 10
        h9 == S8 + Mul8(r, h10) \div 9
        h8 == S8 + Mul8(r, h9) \div 8
        h7 == S8 + Mul8(r, h8) \div 7
        h6 == S8 + Mul8(r, h7) \div 6
        h5 == S8 + Mul8(r, h6) \div 5
        h4 == S8 + Mul8(r, h5) \div 4
        h3 == S8 + Mul8(r, h4) \div 3
        h2 == S8 + Mul8(r, h3) \div 2
    IN  S8 + Mul8(r, h2)

\* e^-y at eight places, y >= 0 at eight places
ExpNeg8(y) ==
    LET k == (y + LN2x8 - 1) \div LN2x8
        r == k * LN2x8 - y
    IN  IF k > 30 THEN 0 ELSE ExpFrac8(r) \div (2 ^ k)

\* 1 / d at eight places for S8 <= d < 2.7 S8: a four-place quotient refined
\* by one Newton step
Recip8(d) ==
    LET y0 == (S8 \div (d \div SC)) * SC
    IN  Mul8(y0, 2 * S8 - Mul8(d, y0))

\* ------------------------------------------------------------------------
\* Special functions
\* ------------------------------------------------------------------------
\* erf of x >= 0 given at eight places (Abramowitz and Stegun 7.1.26); the
\* result is at eight places.  Horner's form of the source, each partial sum
\* kept non-negative by pairing the coefficients' signs.
ErfAbs8(x) ==
    LET a1 == 25482959 + 0
        a2 == 28449674 + 0
        a3 == 142141374 + 0
        a4 == 145315203 + 0
        a5 == 106140543 + 0
        p  == 32759110 + 0
        t  == Recip8(S8 + Mul8(p, x))
        \* a5 t + a4 is negative, (..) t + a3 positive, (..) t + a2 negative,
        \* (..) t + a1 positive
        n4 == a4 - Mul8(a5, t)
        p3 == a3 - Mul8(n4, t)
        n2 == a2 - Mul8(p3, t)
        p1 == a1 - Mul8(n2, t)
    IN  S8 - Mul8(Mul8(p1, t), ExpNeg8(Mul8(x, x)))

\* erf(z) for z at four places, result at eight places.  |z| is cut at 4.5,
\* where erf is 1 to eight places.
Erf8(z) ==
    LET x == Min(Abs(z), 45000) * SC
    IN  IF z >= 0 THEN ErfAbs8(x) ELSE 0 - ErfAbs8(x)

\* logNormalCDF(x, mean, stdDev) at eight places, in [0, S8].  variance /
\* (mean * mean) is taken as (stdDev / mean)^2, the same number, to stay
\* within 32 bits.
logNormalCDF(x, mean, stdDev) ==
    IF x <= 0 \/ mean <= 0 THEN 0
    ELSE LET cv           == Div(stdDev, mean)
             sigma_log_sq == Ln(SC + Mul(cv, cv))
             sigma_log    == Sqrt(sigma_log_sq)
             mu_log       == Ln(mean) - sigma_log_sq \div 2
             z            == Div(Ln(x) - mu_log, Mul(sigma_log, SQRT2))
         IN  (S8 + Erf8(z)) \div 2

\* ------------------------------------------------------------------------
\* Sequences of numbers
\* ------------------------------------------------------------------------
RECURSIVE SeqSum(_)
SeqSum(s) == IF s = <<>> THEN 0 ELSE Head(s) + SeqSum(Tail(s))

RECURSIVE SeqMin(_)
SeqMin(s) == IF Len(s) = 1 THEN s[1] ELSE Min(Head(s), SeqMin(Tail(s)))

RECURSIVE SeqMax(_)
SeqMax(s) == IF Len(s) = 1 THEN s[1] ELSE Max(Head(s), SeqMax(Tail(s)))

\* [...s].sort((a, b) => a - b): insertion into an ascending sequence
RECURSIVE InsertSorted(_, _)
InsertSorted(v, s) ==
    IF s = <<>> THEN <<v>>
    ELSE IF v < Head(s) THEN <<v>> \o s
    ELSE <<Head(s)>> \o InsertSorted(v, Tail(s))

RECURSIVE SortAsc(_)
SortAsc(s) == IF s = <<>> THEN <<>> ELSE InsertSorted(Head(s), SortAsc(Tail(s)))

\* ------------------------------------------------------------------------
\* CONFIG (the values the model's arithmetic uses, at four places)
\* ------------------------------------------------------------------------
TIME_DECAY_FACTOR == 3000
\* ln(1 + INFLATION_RATE) for INFLATION_RATE 0.03
LN_INFLATION == 296
MIN_DATA_HIGH_CONFIDENCE == 6
MIN_DATA_MEDIUM_CONFIDENCE == 3
MIN_DATA_LOW_CONFIDENCE == 1
RATING_IMPACT_SCALE == 2500
P2_VS_P1 == 11500
P3_VS_P1 == 8500
P4_VS_P1 == 7000
BASE_MARGIN == 1500
SCARCITY_PENALTY == 1000
MIN_MARGIN == 500
MAX_MARGIN == 5000
TREND_MIN_POINTS == 3
CAMPUS_CHICAGO == 9500
TIME_MORNING_EARLY == 9000
TIME_AFTERNOON == 10500
TIME_EVENING == 9500

\* ------------------------------------------------------------------------
\* Terms and time weights
\* ------------------------------------------------------------------------
Seasons == {"Winter", "Spring", "Summer", "Fall"}

seasonOrder(season) ==
    CASE season = "Winter" -> 0
      [] season = "Spring" -> 1
      [] season = "Summer" -> 2
      [] season = "Fall" -> 3

\* A term token is [season, year]; the pattern (Winter|Spring|Summer|Fall)\s+
\* (\d{4}) matches when the season is one of the four and the year has four
\* digits.  Any other token ("Unknown") gives 0.
parseTermToNumber(term) ==
    IF term.season \in Seasons /\ term.year \in 0..9999
    THEN term.year * 10 + seasonOrder(term.season)
    ELSE 0

\* (currentTerm - termNum) / 4 at four places
YearsDiff(termNum, currentTermNumber) == (currentTermNumber - termNum) * (SC \div 4)

calculateTimeWeight(termNumber, currentTermNumber) ==
    Exp(0 - Mul(TIME_DECAY_FACTOR, YearsDiff(termNumber, currentTermNumber)))

\* Math.pow(1 + INFLATION_RATE, Math.max(0, yearsDiff)).  For an unparsed term
\* yearsDiff is over 5000 and the weight is 0: the engine only ever uses the
\* adjusted price of such an observation multiplied by that weight, so the
\* exponent is cut at YEARS_CUT years to stay within 32 bits.
YEARS_CUT == 40
inflationFactor(yearsDiff) ==
    Exp(Mul(Min(Max(0, yearsDiff), Fx(YEARS_CUT)), LN_INFLATION))

\* ------------------------------------------------------------------------
\* weightedStatistics: mean and stdDev (NaN when the weights sum to 0: the
\* normalised weights are then 0/0)
\* ------------------------------------------------------------------------
weightedStatistics(values, weights) ==
    IF values = <<>> THEN [mean |-> 0, stdDev |-> 0]
    ELSE LET totalWeight == SeqSum(weights)
         IN  IF totalWeight = 0 THEN [mean |-> NaN, stdDev |-> NaN]
             ELSE LET n    == Len(values)
                      nw   == [i \in 1..n |-> Div(weights[i], totalWeight)]
                      mean == SeqSum([i \in 1..n |-> Mul(values[i], nw[i])])
                      variance ==
                          SeqSum([i \in 1..n |->
                              IF nw[i] = 0 THEN 0
                              ELSE Mul(nw[i], Mul(values[i] - mean, values[i] - mean))])
                  IN  [mean |-> mean, stdDev |-> Sqrt(variance)]

\* weights.map(w => w / totalWeight)
normalizedWeights(weights) ==
    LET totalWeight == SeqSum(weights)
    IN  [i \in 1..Len(weights) |-> Div(weights[i], totalWeight)]

\* values.map(...).sort((a, b) => a.value - b.value): the sort is stable, so
\* the pair at index i goes behind the pairs of smaller value and the pairs
\* of equal value before it
sortedPairs(values, nw) ==
    LET n == Len(values)
        place(i) == 1 + Cardinality({j \in 1..n :
                        \/ values[j] < values[i]
                        \/ values[j] = values[i] /\ j < i})
    IN  [k \in 1..n |->
            LET i == CHOOSE i \in 1..n : place(i) = k
            IN  [value |-> values[i], weight |-> nw[i]]]

\* percentile with cumWeight > p in place of cumWeight >= p
percentile_Strict(values, weights, p) ==
    IF values = <<>> THEN 0
    ELSE IF SeqSum(weights) = 0 THEN SeqMax(values)
    ELSE LET pairs == sortedPairs(values, normalizedWeights(weights))
             n == Len(pairs)
             cumWeight == [k \in 1..n |-> SeqSum([i \in 1..k |-> pairs[i].weight])]
             reached == {k \in 1..n : cumWeight[k] > p}
         IN  IF reached # {}
             THEN pairs[CHOOSE k \in reached : \A l \in reached : k <= l].value
             ELSE pairs[n].value

\* weightedStatistics(values, weights).percentile(p).  With the weights
\* summing to 0 every cumWeight is NaN, no comparison holds and the last
\* pair's value is returned (|| 0 changes nothing for a number).
percentile(values, weights, p) ==
    IF values = <<>> THEN 0
    ELSE IF SeqSum(weights) = 0 THEN SeqMax(values)
    ELSE LET pairs == sortedPairs(values, normalizedWeights(weights))
             n == Len(pairs)
             cumWeight == [k \in 1..n |-> SeqSum([i \in 1..k |-> pairs[i].weight])]
             reached == {k \in 1..n : cumWeight[k] >= p}
         IN  IF reached # {}
             THEN pairs[CHOOSE k \in reached : \A l \in reached : k <= l].value
             ELSE pairs[n].value

\* weightedStatistics(values, weights).median
median(values, weights) == percentile(values, weights, SC \div 2)

\* ------------------------------------------------------------------------
\* tCDF / incompleteBeta / betaCF / logGamma, as far as detectTrend uses
\* them: whether pValue = 2 (1 - tCDF(tStat, df)) is below 0.10.
\*
\* incompleteBeta as written divides by a = df / 2 twice (once in bt, once in
\* the result), so with I the regularised incomplete beta function of
\* x = df / (df + t^2) the p-value it yields is I / a when
\* x < (a + 1) / (a + 2.5) and 1 - (1 - I) / a otherwise.  Each is decreasing
\* in t, so "pValue < 0.10" is "t above a threshold" on either side of the t
\* where the branch changes.  The three sequences tabulate, for df = 1.0, 1.1,
\* ... 8.0 and at four places, that t (T_BRANCH), the threshold above it
\* (T_UPPER) and the threshold below it (T_LOWER, equal to T_BRANCH when no t
\* below the branch point gives a p-value under 0.10).
\* ------------------------------------------------------------------------
T_LOWER ==
    <<
       8541, 9485, 10510, 10871, 11114, 11339, 11547, 11740, 11921, 12089,
       12247, 12396, 12536, 12667, 12792, 12910, 13022, 13128, 13229,
       13325, 13416, 13504, 13587, 13667, 13744, 13817, 13887, 13955,
       14020, 14082, 14142, 14200, 14256, 14310, 14361, 14412, 14460,
       14507, 14552, 14596, 14639, 14680, 14720, 14758, 14796, 14832,
       14868, 14902, 14936, 14968, 15000, 15031, 15061, 15090, 15119,
       15146, 15173, 15200, 15226, 15251, 15275, 15299, 15323, 15345,
       15368, 15390, 15411, 15432, 15452, 15472, 15492
    >>

T_BRANCH ==
    <<
       10000, 10318, 10607, 10871, 11114, 11339, 11547, 11740, 11921,
       12089, 12247, 12396, 12536, 12667, 12792, 12910, 13022, 13128,
       13229, 13325, 13416, 13504, 13587, 13667, 13744, 13817, 13887,
       13955, 14020, 14082, 14142, 14200, 14256, 14310, 14361, 14412,
       14460, 14507, 14552, 14596, 14639, 14680, 14720, 14758, 14796,
       14832, 14868, 14902, 14936, 14968, 15000, 15031, 15061, 15090,
       15119, 15146, 15173, 15200, 15226, 15251, 15275, 15299, 15323,
       15345, 15368, 15390, 15411, 15432, 15452, 15472, 15492
    >>

T_UPPER ==
    <<
       127062, 94176, 74152, 61053, 51989, 45431, 40508, 36700, 33677,
       31226, 29200, 27499, 26049, 24799, 23709, 22749, 21895, 21131,
       20441, 19815, 19243, 18718, 18233, 17783, 17364, 16973, 16606,
       16260, 15934, 15625, 15332, 15053, 14787, 14533, 14361, 14412,
       14460, 14507, 14552, 14596, 14639, 14680, 14720, 14758, 14796,
       14832, 14868, 14902, 14936, 14968, 15000, 15031, 15061, 15090,
       15119, 15146, 15173, 15200, 15226, 15251, 15275, 15299, 15323,
       15345, 15368, 15390, 15411, 15432, 15452, 15472, 15492
    >>

\* index of df (four places, 1 <= df) in the tables: the nearest tenth, the
\* last row beyond 8.0
DfRow(df) == Min(Len(T_BRANCH), (df + 500) \div 1000 - 9)

\* tStat > c, for tStat = |slope| / seSlope with seSlope > 0
TAbove(absSlope, seSlope, c) == absSlope > Mul(c, seSlope)

\* pValue < 0.10 for tStat = absSlope / seSlope > 0
pValueSignificant(absSlope, seSlope, df) ==
    LET r == DfRow(df)
    IN  IF TAbove(absSlope, seSlope, T_BRANCH[r])
        THEN TAbove(absSlope, seSlope, T_UPPER[r])
        ELSE TAbove(absSlope, seSlope, T_LOWER[r])

\* ------------------------------------------------------------------------
\* detectTrend
\* ------------------------------------------------------------------------
\* roundoff: an exact fit (every residual 0 in exact arithmetic, slope not 0)
\* leaves the doubles' residuals either exactly 0, and then tStat is 0, or of
\* the size of the rounding error, and then tStat is astronomically large.
\* Which one depends on the bits of the input; roundoff says which.
detectTrend(prices, terms, weights, roundoff) ==
    IF Len(prices) < TREND_MIN_POINTS
    THEN [trend |-> "unknown", strength |-> 0, isSignificant |-> FALSE]
    ELSE
    LET n == Len(prices)
        totalWeight == SeqSum(weights)
        minTerm == SeqMin(terms)
        maxTerm == SeqMax(terms)
        termRange == IF maxTerm - minTerm = 0 THEN 1 ELSE maxTerm - minTerm
        x == [i \in 1..n |-> ((terms[i] - minTerm) * SC) \div termRange]
        wx == [i \in 1..n |-> Mul(weights[i], x[i])]
        sumWX == SeqSum(wx)
        sumWY == SeqSum([i \in 1..n |->
                     IF weights[i] = 0 THEN 0 ELSE Mul(weights[i], prices[i])])
        sumWXX == SeqSum([i \in 1..n |-> Mul(wx[i], x[i])])
        sumWXY == SeqSum([i \in 1..n |->
                     IF wx[i] = 0 THEN 0 ELSE Mul(wx[i], prices[i])])
    IN
    \* every weight 0: meanX, meanY, slope are NaN, no comparison with NaN
    \* holds, so the code runs to the end with tStat 0 and strength NaN
    IF totalWeight = 0
    THEN [trend |-> "stable", strength |-> NaN, isSignificant |-> FALSE]
    ELSE
    LET meanX == Div(sumWX, totalWeight)
        meanY == Div(sumWY, totalWeight)
        numerator == Div(sumWXY, totalWeight) - Mul(meanX, meanY)
        denominator == Div(sumWXX, totalWeight) - Mul(meanX, meanX)
    IN
    IF Abs(denominator) < 1        \* Math.abs(denominator) < 0.0001
    THEN [trend |-> "stable", strength |-> 0, isSignificant |-> FALSE]
    ELSE
    LET slope == Div(numerator, denominator)
        intercept == meanY - Mul(slope, meanX)
        residual == [i \in 1..n |-> prices[i] - (intercept + Mul(slope, x[i]))]
        sumSquaredResiduals ==
            SeqSum([i \in 1..n |->
                IF weights[i] = 0 THEN 0
                ELSE Mul(weights[i], Mul(residual[i], residual[i]))])
        sumWXXCentered ==
            SeqSum([i \in 1..n |-> Mul(weights[i], Mul(x[i] - meanX, x[i] - meanX))])
        effectiveN == Div(Mul(totalWeight, totalWeight),
                          SeqSum([i \in 1..n |-> Mul(weights[i], weights[i])]))
        df == Max(SC, effectiveN - 2 * SC)
        mse == Div(sumSquaredResiduals, df)
        \* mse / (totalWeight * sumWXXCentered / totalWeight); x / 0 is
        \* Infinity and tStat then 0
        seDen == Div(Mul(totalWeight, sumWXXCentered), totalWeight)
        seSlope == IF seDen = 0 THEN 0 ELSE Sqrt(Div(mse, seDen))
        isSignificant ==
            IF sumSquaredResiduals = 0 /\ slope # 0 /\ seDen # 0 THEN roundoff
            ELSE /\ seDen # 0
                 /\ seSlope > 0
                 /\ Abs(slope) > 0
                 /\ pValueSignificant(Abs(slope), seSlope, df)
        \* slope / meanY: 0 / 0 is NaN when every price is 0
        percentageChange == IF meanY = 0 THEN NaN ELSE Div(slope, meanY)
        trend ==
            IF percentageChange = NaN THEN "stable"
            ELSE IF isSignificant /\ percentageChange > 500 THEN "rising"
            ELSE IF isSignificant /\ percentageChange < 0 - 500 THEN "falling"
            ELSE "stable"
        strength ==
            IF percentageChange = NaN THEN NaN
            ELSE Min(Div(Abs(percentageChange), SC \div 2), SC)
    IN  [trend |-> trend, strength |-> strength, isSignificant |-> isSignificant]

\* ------------------------------------------------------------------------
\* The adjustments
\* ------------------------------------------------------------------------
\* calculateRatingImpact centred at RATING_THRESHOLDS.AVERAGE (4.5), not at 5.0
calculateRatingImpact_CentredAtAverage(rating) ==
    IF rating = 0 THEN SC
    ELSE LET normalized == Div(rating - 45000, 15000)
         IN  SC + Mul(RATING_IMPACT_SCALE, Tanh(normalized))

\* rating is at four places; 0 stands for both "undefined" and 0
calculateRatingImpact(rating) ==
    IF rating = 0 THEN SC
    ELSE LET normalized == Div(rating - 5 * SC, 15000)
         IN  SC + Mul(RATING_IMPACT_SCALE, Tanh(normalized))

\* bidsPlaced and spotsAvailable are the two sequences forecastPhase builds,
\* each of the positive values only; weights has one entry per observation.
\* spotsAvailable[i] beyond its length is undefined, and undefined > 0 is
\* false.
calculateDemandPressure(bidsPlaced, spotsAvailable, weights) ==
    IF Len(bidsPlaced) = 0 \/ Len(spotsAvailable) = 0 THEN SC \div 2
    ELSE
    LET n == Len(bidsPlaced)
        valid(i) == i <= Len(spotsAvailable) /\ spotsAvailable[i] > 0 /\ bidsPlaced[i] > 0
        totalWeightedRatio ==
            SeqSum([i \in 1..n |->
                IF valid(i)
                THEN Mul(Div(Fx(bidsPlaced[i]), Fx(spotsAvailable[i])), weights[i])
                ELSE 0])
        totalWeight == SeqSum([i \in 1..n |-> IF valid(i) THEN weights[i] ELSE 0])
    IN  IF totalWeight = 0 THEN SC \div 2
        ELSE LET avgRatio == Div(totalWeightedRatio, totalWeight)
                 normalized == Div(avgRatio - 2 * SC, 15000)
             IN  Div(SC, SC + Exp(0 - normalized))

\* meetingTime is [hours, isPM] as the pattern (\d{1,2}):(\d{2})(AM|PM) reads
\* it, or NoMeetingTime when absent or not matching
NoMeetingTime == [hours |-> 0 - 1, isPM |-> FALSE]

getTimeSlotAdjustment(meetingTime) ==
    IF meetingTime = NoMeetingTime THEN SC
    ELSE LET h0 == meetingTime.hours
             hours == IF meetingTime.isPM /\ h0 # 12 THEN h0 + 12
                      ELSE IF ~meetingTime.isPM /\ h0 = 12 THEN 0
                      ELSE h0
         IN  IF hours < 9 THEN TIME_MORNING_EARLY
             ELSE IF hours < 13 THEN SC
             ELSE IF hours < 17 THEN TIME_AFTERNOON
             ELSE TIME_EVENING

\* campus is "" when absent; the test is whether the lower-cased token
\* contains "chicago"
ChicagoTokens == {"Chicago", "chicago", "Chicago Campus"}

getCampusAdjustment(campus) ==
    IF campus = "" THEN SC
    ELSE IF campus \in ChicagoTokens THEN CAMPUS_CHICAGO
    ELSE SC

\* determineConfidence with each threshold exclusive
determineConfidence_Exclusive(dataPoints) ==
    IF dataPoints > MIN_DATA_HIGH_CONFIDENCE THEN "high"
    ELSE IF dataPoints > MIN_DATA_MEDIUM_CONFIDENCE THEN "medium"
    ELSE IF dataPoints > MIN_DATA_LOW_CONFIDENCE THEN "low"
    ELSE "insufficient"

determineConfidence(dataPoints) ==
    IF dataPoints >= MIN_DATA_HIGH_CONFIDENCE THEN "high"
    ELSE IF dataPoints >= MIN_DATA_MEDIUM_CONFIDENCE THEN "medium"
    ELSE IF dataPoints >= MIN_DATA_LOW_CONFIDENCE THEN "low"
    ELSE "insufficient"

\* calculateUncertaintyMargin without the clamp to [MIN_MARGIN, MAX_MARGIN]
calculateUncertaintyMargin_Unclamped(dataPoints, volatility) ==
    BASE_MARGIN + Max(0, MIN_DATA_HIGH_CONFIDENCE - dataPoints) * SCARCITY_PENALTY
        + Mul(volatility, 3000)

calculateUncertaintyMargin(dataPoints, volatility) ==
    LET dataShortfall == Max(0, MIN_DATA_HIGH_CONFIDENCE - dataPoints)
        margin == BASE_MARGIN + dataShortfall * SCARCITY_PENALTY
                  + Mul(volatility, 3000)
    IN  Max(MIN_MARGIN, Min(MAX_MARGIN, margin))

\* ------------------------------------------------------------------------
\* calculateDataDrivenPhaseMultipliers
\* ------------------------------------------------------------------------
\* the keys of bidsByTerm in insertion order
RECURSIVE TermsInOrder(_, _)
TermsInOrder(bids, seen) ==
    IF bids = <<>> THEN <<>>
    ELSE IF Head(bids).term \in seen THEN TermsInOrder(Tail(bids), seen)
    ELSE <<Head(bids).term>> \o TermsInOrder(Tail(bids), seen \cup {Head(bids).term})

\* bidsByTerm.get(term).get(phase): the clearing price of the last bid of
\* that term and phase (Map.set overwrites), 0 when there is none (undefined
\* and 0 both fail the test "p && p > 0")
RECURSIVE PhasePrice(_, _, _)
PhasePrice(bids, term, phase) ==
    IF bids = <<>> THEN 0
    ELSE LET last == bids[Len(bids)]
         IN  IF last.term = term /\ last.phase = phase THEN last.clearingPrice
             ELSE PhasePrice(SubSeq(bids, 1, Len(bids) - 1), term, phase)

\* the ratios pushed for phase k against phase 1, one per term with both
RECURSIVE PhaseRatios(_, _, _)
PhaseRatios(allBids, termList, k) ==
    IF termList = <<>> THEN <<>>
    ELSE LET p1 == PhasePrice(allBids, Head(termList), "1")
             pk == PhasePrice(allBids, Head(termList), k)
             rest == PhaseRatios(allBids, Tail(termList), k)
         IN  IF p1 > 0 /\ pk > 0 THEN <<Div(Fx(pk), Fx(p1))>> \o rest ELSE rest

\* medianRatio without the averaging of the two middle ratios
medianRatio_LowerMiddle(ratios) ==
    IF Len(ratios) = 0 THEN 0
    ELSE SortAsc(ratios)[(Len(ratios) + 1) \div 2]

medianRatio(ratios) ==
    IF Len(ratios) = 0 THEN 0
    ELSE LET sorted == SortAsc(ratios)
             mid == Len(sorted) \div 2
         IN  IF Len(sorted) % 2 = 1 THEN sorted[mid + 1]
             ELSE (sorted[mid] + sorted[mid + 1]) \div 2

calcConfidence(n) ==
    IF n = 0 THEN 0 ELSE IF n >= 5 THEN SC ELSE Div(Fx(n), Fx(5))

\* calculateDataDrivenPhaseMultipliers falling back to the ratio 1 of "no
\* relationship known" in place of the configured defaults
calculateDataDrivenPhaseMultipliers_UnitDefaults(allBids) ==
    LET termList == TermsInOrder(allBids, {})
        p2p1Ratios == PhaseRatios(allBids, termList, "2")
        p3p1Ratios == PhaseRatios(allBids, termList, "3")
        p4p1Ratios == PhaseRatios(allBids, termList, "4")
    IN  [P2_VS_P1 |-> IF Len(p2p1Ratios) >= 2 THEN medianRatio(p2p1Ratios) ELSE SC,
         P3_VS_P1 |-> IF Len(p3p1Ratios) >= 2 THEN medianRatio(p3p1Ratios) ELSE SC,
         P4_VS_P1 |-> IF Len(p4p1Ratios) >= 2 THEN medianRatio(p4p1Ratios) ELSE SC,
         P2_confidence |-> calcConfidence(Len(p2p1Ratios)),
         P3_confidence |-> calcConfidence(Len(p3p1Ratios)),
         P4_confidence |-> calcConfidence(Len(p4p1Ratios))]

calculateDataDrivenPhaseMultipliers(allBids) ==
    LET termList == TermsInOrder(allBids, {})
        p2p1Ratios == PhaseRatios(allBids, termList, "2")
        p3p1Ratios == PhaseRatios(allBids, termList, "3")
        p4p1Ratios == PhaseRatios(allBids, termList, "4")
    IN  [P2_VS_P1 |-> IF Len(p2p1Ratios) >= 2 THEN medianRatio(p2p1Ratios) ELSE P2_VS_P1,
         P3_VS_P1 |-> IF Len(p3p1Ratios) >= 2 THEN medianRatio(p3p1Ratios) ELSE P3_VS_P1,
         P4_VS_P1 |-> IF Len(p4p1Ratios) >= 2 THEN medianRatio(p4p1Ratios) ELSE P4_VS_P1,
         P2_confidence |-> calcConfidence(Len(p2p1Ratios)),
         P3_confidence |-> calcConfidence(Len(p3p1Ratios)),
         P4_confidence |-> calcConfidence(Len(p4p1Ratios))]

\* ------------------------------------------------------------------------
\* calculateWinProbability and generateWinProbabilityCurve.  A probability
\* is a percentage at four places (50 % is 50 * SC); bids and expectedPrice
\* are whole numbers of points.
\* ------------------------------------------------------------------------
\* calculateWinProbability counting the prices the bid falls short of
calculateWinProbability_Reversed(bid, prices, weights, expectedPrice, stdDev) ==
    IF bid <= 0 THEN 0
    ELSE IF Len(prices) = 0
    THEN IF expectedPrice <= 0 THEN Fx(50)
         ELSE logNormalCDF(Fx(bid), Fx(expectedPrice),
                           Max(stdDev, Mul(Fx(expectedPrice), 2000))) \div 100
    ELSE
    LET n == Len(prices)
        totalWeight == SeqSum(weights)
        weightBeaten ==
            SeqSum([i \in 1..n |->
                IF weights[i] = 0 THEN 0
                ELSE IF Fx(bid) <= prices[i] THEN weights[i]
                ELSE 0])
        empiricalProb == Div(weightBeaten, totalWeight)
        shrinkage == Min(SC, Div(Fx(n), Fx(10)))
        adjustedProb == Mul(shrinkage, empiricalProb) + Mul(SC - shrinkage, SC \div 2)
        empiricalWeight == Min(SC, Div(Fx(n), Fx(6)))
        finalProb == Mul(empiricalWeight, adjustedProb)
                     + Mul(SC - empiricalWeight, SC \div 2)
    IN  Fx(Round(finalProb * 100))

calculateWinProbability(bid, prices, weights, expectedPrice, stdDev) ==
    IF bid <= 0 THEN 0
    ELSE IF Len(prices) = 0
    THEN IF expectedPrice <= 0 THEN Fx(50)
         ELSE logNormalCDF(Fx(bid), Fx(expectedPrice),
                           Max(stdDev, Mul(Fx(expectedPrice), 2000))) \div 100
    ELSE
    LET n == Len(prices)
        totalWeight == SeqSum(weights)
        weightBeaten ==
            SeqSum([i \in 1..n |->
                IF weights[i] = 0 THEN 0
                ELSE IF Fx(bid) >= prices[i] THEN weights[i]
                ELSE IF Fx(bid) >= Mul(prices[i], 9500) THEN weights[i] \div 2
                ELSE 0])
        empiricalProb == Div(weightBeaten, totalWeight)
        shrinkage == Min(SC, Div(Fx(n), Fx(10)))
        adjustedProb == Mul(shrinkage, empiricalProb) + Mul(SC - shrinkage, SC \div 2)
        parametricProb ==
            logNormalCDF(Fx(bid), Fx(expectedPrice),
                         Max(stdDev, Mul(Fx(expectedPrice), 1500))) \div SC
        empiricalWeight == Min(SC, Div(Fx(n), Fx(6)))
        finalProb == Mul(empiricalWeight, adjustedProb)
                     + Mul(SC - empiricalWeight, parametricProb)
    IN  Fx(Round(finalProb * 100))

\* generateWinProbabilityCurve with the loop test bid < maxBid
generateWinProbabilityCurve_Exclusive(prices, weights, expectedPrice, stdDev) ==
    IF expectedPrice = NaN \/ expectedPrice <= 0 THEN <<>>
    ELSE LET minBid == Max(0, Round(Mul(Fx(expectedPrice), 5000)))
             maxBid == Round(Mul(Fx(expectedPrice), 15000))
             step == Max(1, Round(Div(Fx(maxBid - minBid), Fx(40))))
             count == (maxBid - minBid - 1) \div step + 1
         IN  [k \in 1..count |->
                 LET bid == minBid + (k - 1) * step
                 IN  [bid |-> bid,
                      probability |-> calculateWinProbability(bid, prices, weights,
                                                              expectedPrice, stdDev)]]

\* expectedPrice NaN: "expectedPrice <= 0" is false, minBid and maxBid are
\* NaN and the loop test "bid <= maxBid" fails at once.  Otherwise the for
\* loop pushes the points minBid, minBid + step, ... up to maxBid.
generateWinProbabilityCurve(prices, weights, expectedPrice, stdDev) ==
    IF expectedPrice = NaN \/ expectedPrice <= 0 THEN <<>>
    ELSE LET minBid == Max(0, Round(Mul(Fx(expectedPrice), 5000)))
             maxBid == Round(Mul(Fx(expectedPrice), 15000))
             step == Max(1, Round(Div(Fx(maxBid - minBid), Fx(40))))
             count == (maxBid - minBid) \div step + 1
         IN  [k \in 1..count |->
                 LET bid == minBid + (k - 1) * step
                 IN  [bid |-> bid,
                      probability |-> calculateWinProbability(bid, prices, weights,
                                                              expectedPrice, stdDev)]]

\* ------------------------------------------------------------------------
\* forecastPhase and estimateFromOtherPhases
\*
\* A ForecastResult is a record.  expectedPrice and the three bids are whole
\* points or NaN; trendStrength, volatility, demandPressure and
\* uncertaintyMargin are at four places.  A factor is [name, description], the
\* description reduced to the part that varies.  Fields a result leaves
\* undefined are FALSE, 0 and <<>>.
\* ------------------------------------------------------------------------
Factor(name, description) == [name |-> name, description |-> description]

\* Math.round(x * m) for x whole points or NaN and m at four places
RoundTimes(x, m) == IF x = NaN THEN NaN ELSE Round(Mul(Fx(x), m))

RECURSIVE forecastPhase(_, _, _, _, _, _, _, _)
RECURSIVE estimateFromOtherPhases(_, _, _, _, _, _, _)

\* forecastPhase from the multipliers on (steps 3 to 9 of the source), given
\* the series and what steps 1 to 6 computed from it.  hasDemandData is
\* bidsPlaced.length > 0.
forecastPhaseResult(phase, prices, weights, stats, trendResult, ratingMultiplier, demandPressure, hasDemandData, timeAdjustment, campusAdjustment) ==
    LET n == Len(prices)
        trend == trendResult.trend
        trendStrength == trendResult.strength
        basePrice == stats.mean
        trendMultiplier ==
            IF trend = "rising" THEN SC + Mul(1000, trendStrength)
            ELSE IF trend = "falling" THEN SC - Mul(800, trendStrength)
            ELSE SC
        demandMultiplier ==
            IF hasDemandData THEN SC + Mul(demandPressure - SC \div 2, 2000)
            ELSE SC
        totalMultiplier ==
            Mul(Mul(Mul(Mul(trendMultiplier, ratingMultiplier), demandMultiplier),
                    timeAdjustment), campusAdjustment)
        expectedPrice ==
            IF basePrice = NaN THEN NaN ELSE Round(Mul(basePrice, totalMultiplier))
        \* stats.mean > 0 is false for NaN
        volatility ==
            IF stats.mean # NaN /\ stats.mean > 0 THEN Div(stats.stdDev, stats.mean)
            ELSE 0
        uncertaintyMargin == calculateUncertaintyMargin(n, volatility)
        safeBid == RoundTimes(expectedPrice, SC + uncertaintyMargin)
        aggressiveBid == expectedPrice
        minimumBid == RoundTimes(expectedPrice, SC - uncertaintyMargin \div 2)
        adjustedStdDev == IF stats.stdDev = NaN THEN NaN
                          ELSE Mul(stats.stdDev, totalMultiplier)
        \* p * totalMultiplier / (stats.mean || 1) * basePrice
        adjustedPrices ==
            IF basePrice = NaN THEN prices
            ELSE [i \in 1..n |->
                    IF weights[i] = 0 THEN prices[i]
                    ELSE Mul(Div(Mul(prices[i], totalMultiplier),
                                 IF stats.mean = 0 THEN SC ELSE stats.mean),
                             basePrice)]
        probData == generateWinProbabilityCurve(adjustedPrices, weights,
                                                expectedPrice, adjustedStdDev)
        factors ==
            (IF trend = "rising" THEN <<Factor("Rising Trend", "")>>
             ELSE IF trend = "falling" THEN <<Factor("Falling Trend", "")>>
             ELSE <<>>)
            \o (IF ratingMultiplier # SC THEN <<Factor("Professor Rating", "")>> ELSE <<>>)
            \o (IF hasDemandData THEN <<Factor("Demand Pressure", "")>> ELSE <<>>)
            \o (IF timeAdjustment # SC THEN <<Factor("Time Slot", "")>> ELSE <<>>)
            \o (IF campusAdjustment # SC THEN <<Factor("Campus Location", "")>> ELSE <<>>)
            \o (IF trendResult.isSignificant /\ trend # "stable"
                THEN <<Factor("Trend Significance", "")>> ELSE <<>>)
    IN  [phase |-> phase,
         expectedPrice |-> expectedPrice,
         safeBid |-> safeBid,
         aggressiveBid |-> aggressiveBid,
         minimumBid |-> minimumBid,
         confidence |-> determineConfidence(n),
         dataPoints |-> n,
         trend |-> trend,
         trendStrength |-> trendStrength,
         trendSignificant |-> trendResult.isSignificant,
         volatility |-> volatility,
         demandPressure |-> demandPressure,
         uncertaintyMargin |-> uncertaintyMargin,
         factors |-> factors,
         probabilityData |-> probData]

\* forecastPhase once the series are extracted (steps 1 to 6 of the source)
forecastPhaseSeries(phase, prices, terms, weights, bidsPlaced, spotsAvailable, rating, meetingTime, campus, roundoff) ==
    forecastPhaseResult(phase, prices, weights,
                        weightedStatistics(prices, weights),
                        detectTrend(prices, terms, weights, roundoff),
                        calculateRatingImpact(rating),
                        calculateDemandPressure(bidsPlaced, spotsAvailable, weights),
                        Len(bidsPlaced) > 0,
                        getTimeSlotAdjustment(meetingTime),
                        getCampusAdjustment(campus))

\* the inflation-adjusted prices, term numbers and time weights of the bids
SeriesPrices(phaseBids, currentTerm) ==
    [i \in 1..Len(phaseBids) |->
        Mul(Fx(phaseBids[i].clearingPrice),
            inflationFactor(YearsDiff(parseTermToNumber(phaseBids[i].term),
                                      currentTerm)))]
SeriesTerms(phaseBids) ==
    [i \in 1..Len(phaseBids) |-> parseTermToNumber(phaseBids[i].term)]
SeriesWeights(phaseBids, currentTerm) ==
    [i \in 1..Len(phaseBids) |->
        calculateTimeWeight(parseTermToNumber(phaseBids[i].term), currentTerm)]
\* bidsPlaced and spotsAvailable are pushed only when present and positive
SeriesBidsPlaced(phaseBids) ==
    LET positiveBids == SelectSeq(phaseBids, LAMBDA b : b.bidsPlaced > 0)
    IN  [i \in 1..Len(positiveBids) |-> positiveBids[i].bidsPlaced]
SeriesSpotsAvailable(phaseBids) ==
    LET positiveSpots == SelectSeq(phaseBids, LAMBDA b : b.spotsAvailable > 0)
    IN  [i \in 1..Len(positiveSpots) |-> positiveSpots[i].spotsAvailable]

forecastPhase(phase, phaseBids, allBids, rating, meetingTime, campus, currentTerm, roundoff) ==
    IF Len(phaseBids) = 0
    THEN estimateFromOtherPhases(phase, allBids, rating, meetingTime, campus,
                                 currentTerm, roundoff)
    ELSE forecastPhaseSeries(phase,
                             SeriesPrices(phaseBids, currentTerm),
                             SeriesTerms(phaseBids),
                             SeriesWeights(phaseBids, currentTerm),
                             SeriesBidsPlaced(phaseBids),
                             SeriesSpotsAvailable(phaseBids),
                             rating, meetingTime, campus, roundoff)

\* NoDataResult that reports the phase as thinly observed, with no factor
NoDataResult_Silent(targetPhase) ==
    [phase |-> targetPhase,
     expectedPrice |-> 0,
     safeBid |-> 0,
     aggressiveBid |-> 0,
     minimumBid |-> 0,
     confidence |-> "low",
     dataPoints |-> 0,
     trend |-> "unknown",
     trendStrength |-> 0,
     trendSignificant |-> FALSE,
     volatility |-> 0,
     demandPressure |-> SC \div 2,
     uncertaintyMargin |-> 0,
     factors |-> <<>>,
     probabilityData |-> <<>>]

NoDataResult(targetPhase) ==
    [phase |-> targetPhase,
     expectedPrice |-> 0,
     safeBid |-> 0,
     aggressiveBid |-> 0,
     minimumBid |-> 0,
     confidence |-> "insufficient",
     dataPoints |-> 0,
     trend |-> "unknown",
     trendStrength |-> 0,
     trendSignificant |-> FALSE,
     volatility |-> 0,
     demandPressure |-> SC \div 2,
     uncertaintyMargin |-> 0,
     factors |-> <<Factor("No Data", "")>>,
     probabilityData |-> <<>>]

\* the label the description gives a ratio, and the confidence it earns
RatioSource(conf) == IF conf > 5000 THEN "from historical data" ELSE "estimated"
\* RatioConfidence with the branches exchanged
RatioConfidence_Exchanged(conf) == IF conf > 8000 THEN "low" ELSE "medium"
RatioConfidence(conf) == IF conf > 8000 THEN "medium" ELSE "low"

\* the switch on targetPhase: [multiplier, description, confidence]
PhaseRelationship(basePhase, targetPhase, phaseMultipliers) ==
    IF basePhase = "1"
    THEN CASE targetPhase = "2" ->
                [multiplier |-> phaseMultipliers.P2_VS_P1,
                 description |-> RatioSource(phaseMultipliers.P2_confidence),
                 confidence |-> RatioConfidence(phaseMultipliers.P2_confidence)]
           [] targetPhase = "3" ->
                [multiplier |-> phaseMultipliers.P3_VS_P1,
                 description |-> RatioSource(phaseMultipliers.P3_confidence),
                 confidence |-> RatioConfidence(phaseMultipliers.P3_confidence)]
           [] targetPhase \in {"4", "PWYB"} ->
                [multiplier |-> phaseMultipliers.P4_VS_P1,
                 description |-> RatioSource(phaseMultipliers.P4_confidence),
                 confidence |-> RatioConfidence(phaseMultipliers.P4_confidence)]
           [] OTHER ->
                [multiplier |-> SC, description |-> "", confidence |-> "low"]
    ELSE CASE targetPhase = "1" ->
                [multiplier |-> Div(SC, phaseMultipliers.P2_VS_P1),
                 description |-> "Phase 1 estimated from Phase 2",
                 confidence |-> "low"]
           [] targetPhase = "3" ->
                [multiplier |-> Div(phaseMultipliers.P3_VS_P1, phaseMultipliers.P2_VS_P1),
                 description |-> "via Phase 2 to Phase 1 relationship",
                 confidence |-> "low"]
           [] targetPhase \in {"4", "PWYB"} ->
                [multiplier |-> Div(phaseMultipliers.P4_VS_P1, phaseMultipliers.P2_VS_P1),
                 description |-> "via Phase 2 to Phase 1 relationship",
                 confidence |-> "low"]
           [] OTHER ->
                [multiplier |-> SC, description |-> "", confidence |-> "low"]

\* 15 % additional margin for cross-phase uncertainty, at four places
EXTRA_UNCERTAINTY == 11500

\* DerivedResult with the safe bid scaled like the other tiers
DerivedResult_NoExtraUncertainty(targetPhase, baseForecast, rel) ==
    LET multiplier == rel.multiplier
        expectedPrice == RoundTimes(baseForecast.expectedPrice, multiplier)
    IN  [phase |-> targetPhase,
         expectedPrice |-> expectedPrice,
         safeBid |-> RoundTimes(baseForecast.safeBid, multiplier),
         aggressiveBid |-> RoundTimes(baseForecast.aggressiveBid, multiplier),
         minimumBid |-> RoundTimes(baseForecast.minimumBid, multiplier),
         confidence |-> rel.confidence,
         dataPoints |-> baseForecast.dataPoints,
         trend |-> baseForecast.trend,
         trendStrength |-> baseForecast.trendStrength,
         trendSignificant |-> FALSE,
         volatility |-> baseForecast.volatility,
         demandPressure |-> baseForecast.demandPressure,
         uncertaintyMargin |-> 0,
         factors |-> baseForecast.factors
                     \o <<Factor("Cross-Phase Estimate", rel.description)>>,
         probabilityData |->
             generateWinProbabilityCurve(<<>>, <<>>, expectedPrice,
                 IF expectedPrice = NaN THEN NaN
                 ELSE Mul(Fx(expectedPrice), baseForecast.volatility))]

\* the result built from the base forecast and the phase relationship
DerivedResult(targetPhase, baseForecast, rel) ==
    LET multiplier == rel.multiplier
        expectedPrice == RoundTimes(baseForecast.expectedPrice, multiplier)
        safeBid ==
            IF baseForecast.safeBid = NaN THEN NaN
            ELSE Round(Mul(Mul(Fx(baseForecast.safeBid), multiplier), EXTRA_UNCERTAINTY))
    IN  [phase |-> targetPhase,
         expectedPrice |-> expectedPrice,
         safeBid |-> safeBid,
         aggressiveBid |-> RoundTimes(baseForecast.aggressiveBid, multiplier),
         minimumBid |-> RoundTimes(baseForecast.minimumBid, multiplier),
         confidence |-> rel.confidence,
         dataPoints |-> baseForecast.dataPoints,
         trend |-> baseForecast.trend,
         trendStrength |-> baseForecast.trendStrength,
         trendSignificant |-> FALSE,
         volatility |-> baseForecast.volatility,
         demandPressure |-> baseForecast.demandPressure,
         uncertaintyMargin |-> 0,
         factors |-> baseForecast.factors
                     \o <<Factor("Cross-Phase Estimate", rel.description)>>,
         probabilityData |->
             generateWinProbabilityCurve(<<>>, <<>>, expectedPrice,
                 IF expectedPrice = NaN THEN NaN
                 ELSE Mul(Fx(expectedPrice), baseForecast.volatility))]

\* forecastPhaseNesting without the return on baseBids.length === 0: the base
\* call is then made with an empty list and derives once more
forecastPhaseNesting_BaseUnchecked(phaseBids, allBids) ==
    LET phase1Bids == SelectSeq(allBids, LAMBDA b : b.phase = "1")
        phase2Bids == SelectSeq(allBids, LAMBDA b : b.phase = "2")
        baseBids == IF Len(phase1Bids) >= Len(phase2Bids) THEN phase1Bids ELSE phase2Bids
    IN  IF Len(phaseBids) # 0 THEN 0
        ELSE IF Len(baseBids) = 0 THEN 2
        ELSE 1

\* how deep the calls of estimateFromOtherPhases nest inside
\* forecastPhase(phase, phaseBids, allBids, ...): 0 for a direct result, and
\* one more than the nesting of the base call for a derived one
RECURSIVE forecastPhaseNesting(_, _)
forecastPhaseNesting(phaseBids, allBids) ==
    LET phase1Bids == SelectSeq(allBids, LAMBDA b : b.phase = "1")
        phase2Bids == SelectSeq(allBids, LAMBDA b : b.phase = "2")
        baseBids == IF Len(phase1Bids) >= Len(phase2Bids) THEN phase1Bids ELSE phase2Bids
    IN  IF Len(phaseBids) # 0 THEN 0
        ELSE IF Len(baseBids) = 0 THEN 1
        ELSE 1 + forecastPhaseNesting(baseBids, allBids)

\* estimateFromOtherPhases taking phase 2 as the base on a tie
estimateFromOtherPhases_Phase2OnTie(targetPhase, allBids, rating, meetingTime, campus, currentTerm, roundoff) ==
    LET phase1Bids == SelectSeq(allBids, LAMBDA b : b.phase = "1")
        phase2Bids == SelectSeq(allBids, LAMBDA b : b.phase = "2")
        baseBids == IF Len(phase1Bids) > Len(phase2Bids) THEN phase1Bids ELSE phase2Bids
        basePhase == IF Len(phase1Bids) > Len(phase2Bids) THEN "1" ELSE "2"
    IN
    IF Len(baseBids) = 0 THEN NoDataResult(targetPhase)
    ELSE
    LET baseForecast == forecastPhase(basePhase, baseBids, allBids, rating,
                                      meetingTime, campus, currentTerm, roundoff)
        phaseMultipliers == calculateDataDrivenPhaseMultipliers(allBids)
    IN  DerivedResult(targetPhase, baseForecast,
                      PhaseRelationship(basePhase, targetPhase, phaseMultipliers))

estimateFromOtherPhases(targetPhase, allBids, rating, meetingTime, campus, currentTerm, roundoff) ==
    LET phase1Bids == SelectSeq(allBids, LAMBDA b : b.phase = "1")
        phase2Bids == SelectSeq(allBids, LAMBDA b : b.phase = "2")
        baseBids == IF Len(phase1Bids) >= Len(phase2Bids) THEN phase1Bids ELSE phase2Bids
        basePhase == IF Len(phase1Bids) >= Len(phase2Bids) THEN "1" ELSE "2"
    IN
    IF Len(baseBids) = 0 THEN NoDataResult(targetPhase)
    ELSE
    LET baseForecast == forecastPhase(basePhase, baseBids, allBids, rating,
                                      meetingTime, campus, currentTerm, roundoff)
        phaseMultipliers == calculateDataDrivenPhaseMultipliers(allBids)
    IN  DerivedResult(targetPhase, baseForecast,
                      PhaseRelationship(basePhase, targetPhase, phaseMultipliers))

\* ------------------------------------------------------------------------
\* generateStrategyNotes and generateOverallRecommendation (no comparison
\* with NaN holds)
\* ------------------------------------------------------------------------
NumLess(a, b) == a # NaN /\ b # NaN /\ a < b

generateStrategyNotes(p1, p2, p3, p4, rating) ==
    (IF p1.demandPressure > 7000 THEN <<"HIGH DEMAND">> ELSE <<>>)
    \o (IF p1.trend = "rising" /\ p1.trendStrength > 5000
        THEN <<"RISING PRICES">> ELSE <<>>)
    \o (IF p1.trend = "falling" /\ p1.trendStrength > 5000
        THEN <<"FALLING PRICES">> ELSE <<>>)
    \o (IF p1.expectedPrice # NaN /\ p2.expectedPrice # NaN
           /\ Fx(p2.expectedPrice) > Mul(Fx(p1.expectedPrice), 12000)
        THEN <<"Phase 2 significantly higher">> ELSE <<>>)
    \o (IF p1.expectedPrice # NaN /\ p3.expectedPrice # NaN
           /\ Fx(p3.expectedPrice) < Mul(Fx(p1.expectedPrice), 8000)
           /\ p3.confidence # "insufficient"
        THEN <<"Phase 3 savings">> ELSE <<>>)
    \o (IF p1.expectedPrice # NaN /\ p4.expectedPrice # NaN
           /\ Fx(p4.expectedPrice) < Mul(Fx(p1.expectedPrice), 6000)
           /\ p4.confidence # "insufficient"
        THEN <<"PWYB savings">> ELSE <<>>)
    \o (IF rating >= 55000 THEN <<"STAR PROFESSOR">> ELSE <<>>)
    \o (IF p1.volatility > 4000 THEN <<"HIGH VOLATILITY">> ELSE <<>>)
    \o (IF p1.confidence \in {"low", "insufficient"} THEN <<"LIMITED DATA">> ELSE <<>>)

generateOverallRecommendation(p1, p2, p3, p4) ==
    LET phases == <<[phase |-> "Phase 1", forecast |-> p1],
                    [phase |-> "Phase 2", forecast |-> p2],
                    [phase |-> "Phase 3", forecast |-> p3],
                    [phase |-> "PWYB", forecast |-> p4]>>
        viable == SelectSeq(phases, LAMBDA p :
                      /\ p.forecast.confidence # "insufficient"
                      /\ p.forecast.expectedPrice # NaN
                      /\ p.forecast.expectedPrice > 0)
        \* reduce: the first of the cheapest
        cheapest ==
            LET i == CHOOSE i \in 1..Len(viable) :
                        /\ \A j \in 1..Len(viable) :
                              viable[i].forecast.expectedPrice
                                  <= viable[j].forecast.expectedPrice
                        /\ \A j \in 1..(i - 1) :
                              viable[j].forecast.expectedPrice
                                  > viable[i].forecast.expectedPrice
            IN  viable[i].phase
    IN  IF Len(viable) = 0 THEN "Insufficient data for recommendation"
        ELSE IF p1.demandPressure > 7000 THEN "High demand course"
        ELSE IF cheapest = "PWYB" /\ p4.confidence # "low" THEN "Value opportunity in PWYB"
        ELSE IF cheapest = "Phase 3" /\ p3.confidence # "low" THEN "Phase 3 offers best value"
        ELSE "Recommend Phase 1"

\* ------------------------------------------------------------------------
\* getWinProbabilityForBid and getBidForTargetProbability: the two lookups
\* on a curve.  Bids are whole points, probabilities percentages at four
\* places.  The interpolations are computed exactly, then rounded as
\* Math.round does.
\* ------------------------------------------------------------------------
\* the first i with curve[i].bid <= bid <= curve[i + 1].bid, or 0
FirstBidSegment(bid, probabilityData) ==
    LET hits == {i \in 1..(Len(probabilityData) - 1) :
                     /\ probabilityData[i].bid <= bid
                     /\ probabilityData[i + 1].bid >= bid}
    IN  IF hits = {} THEN 0 ELSE CHOOSE i \in hits : \A j \in hits : i <= j

getWinProbabilityForBid(bid, probabilityData) ==
    IF Len(probabilityData) = 0 THEN Fx(50)
    ELSE IF bid <= 0 THEN 0
    ELSE LET i == FirstBidSegment(bid, probabilityData)
             lower == IF i = 0 THEN probabilityData[1] ELSE probabilityData[i]
             upper == IF i = 0 THEN probabilityData[Len(probabilityData)]
                      ELSE probabilityData[i + 1]
             width == upper.bid - lower.bid
             rise == upper.probability - lower.probability
         IN  IF bid <= lower.bid THEN lower.probability
             ELSE IF bid >= upper.bid THEN upper.probability
             ELSE Fx((2 * (lower.probability * width + (bid - lower.bid) * rise)
                      + width * SC) \div (2 * width * SC))

\* the first i with curve[i].probability <= target <= curve[i + 1].probability,
\* or 0
FirstProbabilitySegment(target, probabilityData) ==
    LET hits == {i \in 1..(Len(probabilityData) - 1) :
                     /\ probabilityData[i].probability <= target
                     /\ probabilityData[i + 1].probability >= target}
    IN  IF hits = {} THEN 0 ELSE CHOOSE i \in hits : \A j \in hits : i <= j

getBidForTargetProbability(targetProbability, probabilityData) ==
    IF Len(probabilityData) = 0 THEN 0
    ELSE LET target == Max(0, Min(Fx(100), targetProbability))
             i == FirstProbabilitySegment(target, probabilityData)
         IN  IF i = 0
             THEN IF target <= probabilityData[1].probability
                  THEN probabilityData[1].bid
                  ELSE probabilityData[Len(probabilityData)].bid
             ELSE LET lower == probabilityData[i]
                      upper == probabilityData[i + 1]
                      probRange == upper.probability - lower.probability
                  IN  IF probRange = 0 THEN lower.bid
                      ELSE lower.bid
                           + (2 * (target - lower.probability) * (upper.bid - lower.bid)
                              + probRange) \div (2 * probRange)

\* ------------------------------------------------------------------------
\* generateForecast as a state machine: the CourseContext, the clock the
\* engine reads, and the four forecasts built one after the other
\* ------------------------------------------------------------------------
VARIABLES
    historicalBids,         \* context.historicalBids
    rating,                 \* context.professorData?.rating (0: absent)
    meetingTime,            \* context.meetingTime
    campus,                 \* context.campus
    currentTerm,            \* getCurrentTermNumber(), read from the clock
    roundoff,               \* see detectTrend
    pc,                     \* where generateForecast is
    forecasts,              \* the ForecastResults built so far, phase 1 first
    strategyNotes,
    overallRecommendation,
    trendInput,             \* the arguments of a call of detectTrend alone
    trendResult,            \* and what it returned
    lookup,                 \* a bid looked up on a curve, and the bid found back
    earlier,                \* what an earlier generateForecast returned for the context
    stats,                  \* a call of weightedStatistics alone, and its percentiles
    enhanced,               \* a call of calculateEnhancedForecasts: its bids, its result
    uploader,               \* the DataUploader component and the parses it started
    planner                 \* the SchedulePlanner component and the plan it stored

contextVars == <<historicalBids, rating, meetingTime, campus, currentTerm, roundoff>>
trendVars == <<trendInput, trendResult>>
uiVars == <<uploader, planner>>
callVars == <<lookup, earlier, stats, enhanced, uiVars>>
vars == <<historicalBids, rating, meetingTime, campus, currentTerm, roundoff,
          pc, forecasts, strategyNotes, overallRecommendation,
          trendInput, trendResult, lookup, earlier, stats, enhanced, uploader, planner>>

Term(season, year) == [season |-> season, year |-> year]
UnknownTerm == Term("Unknown", 0)

Bid(term, phase, clearingPrice, spotsAvailable, bidsPlaced) ==
    [term |-> term, phase |-> phase, clearingPrice |-> clearingPrice,
     spotsAvailable |-> spotsAvailable, bidsPlaced |-> bidsPlaced]

\* The observations a context is drawn from: one course's history over
\* Winter to Summer 2025, with prices 200, 220, 240 in phase 1 of three
\* consecutive terms, demand data on some records only, a record with an
\* unparsable term in phases 1 and 2, and a PWYB record.
ObservationPool ==
    << Bid(Term("Winter", 2025), "1", 200, 10, 30),
       Bid(Term("Spring", 2025), "1", 220, 0, 40),
       Bid(Term("Summer", 2025), "1", 240, 20, 0),
       Bid(UnknownTerm, "1", 200, 0, 0),
       Bid(Term("Winter", 2025), "2", 250, 0, 0),
       Bid(Term("Spring", 2025), "2", 270, 15, 45),
       Bid(UnknownTerm, "2", 260, 0, 0),
       Bid(Term("Spring", 2025), "3", 150, 0, 0),
       Bid(Term("Summer", 2025), "PWYB", 100, 0, 0) >>

MaxObs == 5

\* the pool's records at the positions in S, in the pool's order
RECURSIVE PoolSeq(_, _)
PoolSeq(S, i) ==
    IF i > Len(ObservationPool) THEN <<>>
    ELSE (IF i \in S THEN <<ObservationPool[i]>> ELSE <<>>) \o PoolSeq(S, i + 1)

Contexts ==
    {PoolSeq(S, 1) : S \in {S \in SUBSET (1..Len(ObservationPool)) : Cardinality(S) <= MaxObs}}

Ratings == {0}
MeetingTimes == {NoMeetingTime}
Campuses == {""}
CurrentTerms == {20253}

\* b.phase.toString().toLowerCase().includes(p) for the tags of PhaseType
\* and the keys generateForecast passes
PhaseIncludes(tag, key) ==
    \/ tag = key
    \/ tag = "PWYB" /\ key = "pwyb"

normalizePhaseBids(bids, keys) ==
    SelectSeq(bids, LAMBDA b : \E k \in keys : PhaseIncludes(b.phase, k))

Forecast(phase, keys) ==
    forecastPhase(phase, normalizePhaseBids(historicalBids, keys), historicalBids,
                  rating, meetingTime, campus, currentTerm, roundoff)

\* no call of detectTrend alone
NoTrendInput == [prices |-> <<>>, terms |-> <<>>, weights |-> <<>>]
NoTrendResult == [trend |-> "none", strength |-> 0, isSignificant |-> FALSE]

\* no lookup on a curve
NoLookup == [phase |-> 0, bid |-> 0, probability |-> 0, target |-> 0, found |-> 0]

\* no earlier invocation
NoForecast == [forecasts |-> <<>>, strategyNotes |-> <<>>, overallRecommendation |-> ""]

\* generateForecast called with a context, not through calculateEnhancedForecasts
NoEnhanced == [bids |-> <<>>, result |-> <<>>]

\* no DataUploader and no SchedulePlanner mounted
NoUploader == <<>>
NoPlanner == <<>>

\* weightedStatistics not called alone
NoStats == [values |-> <<>>, weights |-> <<>>, p1 |-> 0, p2 |-> 0, low |-> 0, high |-> 0, median |-> 0]

\* detectTrend consults roundoff only when it is given TREND_MIN_POINTS
\* prices or more, and it is given the records of one phase
RoundoffOutcomes(bids) ==
    IF \E k \in {"1", "2", "3", "4"} :
           Len(normalizePhaseBids(bids, {k})) >= TREND_MIN_POINTS
    THEN BOOLEAN ELSE {FALSE}

Init ==
    /\ historicalBids \in Contexts
    /\ rating \in Ratings
    /\ meetingTime \in MeetingTimes
    /\ campus \in Campuses
    /\ currentTerm \in CurrentTerms
    /\ roundoff \in RoundoffOutcomes(historicalBids)
    /\ pc = "phase1"
    /\ forecasts = <<>>
    /\ strategyNotes = <<>>
    /\ overallRecommendation = ""
    /\ trendInput = NoTrendInput
    /\ trendResult = NoTrendResult
    /\ lookup = NoLookup
    /\ stats = NoStats
    /\ enhanced = NoEnhanced
    /\ uploader = NoUploader
    /\ planner = NoPlanner
    /\ earlier = NoForecast

ForecastStep(at, phase, keys, next) ==
    /\ pc = at
    /\ forecasts' = Append(forecasts, Forecast(phase, keys))
    /\ pc' = next
    /\ UNCHANGED <<contextVars, trendVars, callVars, strategyNotes, overallRecommendation>>

ForecastPhase1 == ForecastStep("phase1", "1", {"1"}, "phase2")
ForecastPhase2 == ForecastStep("phase2", "2", {"2"}, "phase3")
ForecastPhase3 == ForecastStep("phase3", "3", {"3"}, "phase4")
ForecastPhase4 == ForecastStep("phase4", "4", {"4", "pwyb", "pay"}, "notes")

Recommend ==
    /\ pc = "notes"
    /\ strategyNotes' = generateStrategyNotes(forecasts[1], forecasts[2],
                                              forecasts[3], forecasts[4], rating)
    /\ overallRecommendation' = generateOverallRecommendation(forecasts[1],
                                    forecasts[2], forecasts[3], forecasts[4])
    /\ pc' = "done"
    /\ UNCHANGED <<contextVars, trendVars, callVars, forecasts>>

Next == ForecastPhase1 \/ ForecastPhase2 \/ ForecastPhase3 \/ ForecastPhase4 \/ Recommend

Spec == Init /\ [][Next]_vars

\* ------------------------------------------------------------------------
\* Properties of generateForecast
\* ------------------------------------------------------------------------
\* forecasts[k] is the result for PhaseOf[k], built from the records whose
\* phase matches one of PhaseKeys[k]
PhaseOf == <<"1", "2", "3", "4">>
PhaseKeys == <<{"1"}, {"2"}, {"3"}, {"4", "pwyb", "pay"}>>
Observed(k) == normalizePhaseBids(historicalBids, PhaseKeys[k])
Built == 1..Len(forecasts)

\* the base phase of a derivation: phase 1 unless phase 2 has more records
BaseIndex == IF Len(Observed(1)) >= Len(Observed(2)) THEN 1 ELSE 2
IsDerived(k) == Len(Observed(k)) = 0 /\ Len(Observed(BaseIndex)) > 0

\* comparisons of results: none holds of NaN
NumLE(a, b) == a # NaN /\ b # NaN /\ a <= b
IsNumber(a) == a # NaN

HasFactor(f, name) == \E i \in 1..Len(f.factors) : f.factors[i].name = name

\* C1: generateForecast on a context with no observations in any phase
\* returns (all four results are built and the recommendation is made), and
\* each result has confidence 'insufficient', expectedPrice = safeBid =
\* aggressiveBid = minimumBid = 0 and a factor explaining the absence of data.
C1_EmptyContextInsufficient ==
    historicalBids = <<>> =>
        /\ pc = "done" => Len(forecasts) = 4
        /\ \A k \in Built :
              /\ forecasts[k].confidence = "insufficient"
              /\ forecasts[k].expectedPrice = 0
              /\ forecasts[k].safeBid = 0
              /\ forecasts[k].aggressiveBid = 0
              /\ forecasts[k].minimumBid = 0
              /\ HasFactor(forecasts[k], "No Data")

C1_Witness ==
    /\ historicalBids = <<>>
    /\ pc = "done"
    /\ Len(forecasts) = 4
    /\ overallRecommendation = "Insufficient data for recommendation"

\* C2: in every result, direct or derived, minimumBid <= aggressiveBid <=
\* safeBid (every price of a context is non-negative).
C2_BidTiersOrdered ==
    \A k \in Built :
        /\ NumLE(forecasts[k].minimumBid, forecasts[k].aggressiveBid)
        /\ NumLE(forecasts[k].aggressiveBid, forecasts[k].safeBid)

\* C3: every result has expectedPrice, safeBid, aggressiveBid and minimumBid
\* >= 0, every point of its curve has a probability in [0, 100], and
\* confidence and trend are members of their enumerations.
C3_ResultsInRange ==
    \A k \in Built :
        LET f == forecasts[k] IN
        /\ NumLE(0, f.expectedPrice)
        /\ NumLE(0, f.safeBid)
        /\ NumLE(0, f.aggressiveBid)
        /\ NumLE(0, f.minimumBid)
        /\ \A i \in 1..Len(f.probabilityData) :
              /\ f.probabilityData[i].probability >= 0
              /\ f.probabilityData[i].probability <= Fx(100)
        /\ f.confidence \in {"high", "medium", "low", "insufficient"}
        /\ f.trend \in {"rising", "falling", "stable", "unknown"}

\* C4: a phase with observations whose term does not parse, one in which
\* every term is unparsable included, gets a forecast whose expectedPrice and
\* three bid tiers are numbers >= 0.
HasUnparsableTerm(k) ==
    \E i \in 1..Len(Observed(k)) : parseTermToNumber(Observed(k)[i].term) = 0

C4_UnparsableTermsWellDefined ==
    \A k \in Built :
        HasUnparsableTerm(k) =>
            /\ IsNumber(forecasts[k].expectedPrice) /\ forecasts[k].expectedPrice >= 0
            /\ IsNumber(forecasts[k].safeBid) /\ forecasts[k].safeBid >= 0
            /\ IsNumber(forecasts[k].aggressiveBid) /\ forecasts[k].aggressiveBid >= 0
            /\ IsNumber(forecasts[k].minimumBid) /\ forecasts[k].minimumBid >= 0

\* C5 (as stated): a phase forecast from exactly 3 direct observations has
\* confidence 'low'.
C5_ThreeObservationsLow ==
    \A k \in Built : Len(Observed(k)) = 3 => forecasts[k].confidence = "low"

\* C5 (amended): a phase forecast from exactly 3 direct observations has
\* confidence 'medium': 3 reaches MIN_DATA_MEDIUM_CONFIDENCE and is below
\* MIN_DATA_HIGH_CONFIDENCE.
C5_ThreeObservationsMedium ==
    \A k \in Built : Len(Observed(k)) = 3 => forecasts[k].confidence = "medium"

\* phase-1 prices 200, 220, 240 over three consecutive terms
C5_Witness ==
    /\ Len(forecasts) >= 1
    /\ Len(Observed(1)) = 3
    /\ [i \in 1..3 |-> Observed(1)[i].clearingPrice] = <<200, 220, 240>>
    /\ forecasts[1].dataPoints = 3
    /\ forecasts[1].confidence = "medium"

\* The ratio a derivation applies, from the context alone.  For phase k > 1,
\* the terms holding both a phase-1 and a phase-k price give one raw ratio
\* each; with 2 or more of them the pair's ratio is their median, otherwise the
\* configured default.  From base phase 1 the ratio is the target's; from
\* base phase 2 it is the target's over phase 2's (1 for phase 1).
TermsOf == {historicalBids[i].term : i \in 1..Len(historicalBids)}
PriceIn(term, tag) ==
    LET at == {i \in 1..Len(historicalBids) :
                   historicalBids[i].term = term /\ historicalBids[i].phase = tag}
    IN  IF at = {} THEN 0
        ELSE historicalBids[CHOOSE i \in at : \A j \in at : j <= i].clearingPrice
CoTerms(tag) == {t \in TermsOf : PriceIn(t, "1") > 0 /\ PriceIn(t, tag) > 0}

RECURSIVE RawRatios(_, _)
RawRatios(terms, tag) ==
    IF terms = {} THEN <<>>
    ELSE LET t == CHOOSE t \in terms : TRUE
         IN  <<Div(Fx(PriceIn(t, tag)), Fx(PriceIn(t, "1")))>>
             \o RawRatios(terms \ {t}, tag)

MedianOf(ratios) ==
    LET sorted == SortAsc(ratios)
        n == Len(sorted)
    IN  IF n % 2 = 1 THEN sorted[(n + 1) \div 2]
        ELSE (sorted[n \div 2] + sorted[n \div 2 + 1]) \div 2

DefaultRatio(tag) ==
    CASE tag = "2" -> P2_VS_P1 [] tag = "3" -> P3_VS_P1 [] tag = "4" -> P4_VS_P1

PairRatio(tag) ==
    IF tag = "1" THEN SC
    ELSE IF Cardinality(CoTerms(tag)) >= 2 THEN MedianOf(RawRatios(CoTerms(tag), tag))
    ELSE DefaultRatio(tag)

RatioFor(k) ==
    IF BaseIndex = 1 THEN PairRatio(PhaseOf[k])
    ELSE Div(PairRatio(PhaseOf[k]), PairRatio("2"))

\* C7: for a phase with zero observations whose base phase has data, the
\* derived expectedPrice is round(base expectedPrice * ratio), the ratio being
\* the median of the per-term raw ratios when at least 2 terms hold both
\* phases and the configured default otherwise; the derived confidence is
\* never 'high'.
C7_DerivedExpectedPrice ==
    Len(forecasts) = 4 =>
        \A k \in 1..4 :
            IsDerived(k) =>
                /\ forecasts[k].expectedPrice
                       = RoundTimes(forecasts[BaseIndex].expectedPrice, RatioFor(k))
                /\ forecasts[k].confidence # "high"

\* a derivation from phase 2 in which the phase-2/phase-1 ratio is the
\* median of two terms' ratios, and one from phase 1 with a default ratio
C7_Witness ==
    /\ Len(forecasts) = 4
    /\ BaseIndex = 2
    /\ Cardinality(CoTerms("2")) >= 2
    /\ PairRatio("2") # P2_VS_P1
    /\ IsDerived(3)
    /\ forecasts[2].expectedPrice > 0
    /\ forecasts[3].expectedPrice
           = RoundTimes(forecasts[2].expectedPrice, Div(P3_VS_P1, PairRatio("2")))

\* C8 (as stated): in a derived result expectedPrice, safeBid, aggressiveBid
\* and minimumBid each equal the rounded product of the base result's field
\* and the one ratio.
C8_AllFieldsSameRatio ==
    Len(forecasts) = 4 =>
        \A k \in 1..4 :
            IsDerived(k) =>
                LET b == forecasts[BaseIndex]
                    r == RatioFor(k)
                IN  /\ forecasts[k].expectedPrice = RoundTimes(b.expectedPrice, r)
                    /\ forecasts[k].safeBid = RoundTimes(b.safeBid, r)
                    /\ forecasts[k].aggressiveBid = RoundTimes(b.aggressiveBid, r)
                    /\ forecasts[k].minimumBid = RoundTimes(b.minimumBid, r)

\* C8 (amended): in a derived result expectedPrice, aggressiveBid and
\* minimumBid each equal the rounded product of the base result's field and
\* the one ratio, and safeBid equals round(base safeBid * ratio * 1.15).
C8_SafeBidExtraUncertainty ==
    Len(forecasts) = 4 =>
        \A k \in 1..4 :
            IsDerived(k) =>
                LET b == forecasts[BaseIndex]
                    r == RatioFor(k)
                IN  /\ forecasts[k].expectedPrice = RoundTimes(b.expectedPrice, r)
                    /\ forecasts[k].safeBid
                           = IF b.safeBid = NaN THEN NaN
                             ELSE Round(Mul(Mul(Fx(b.safeBid), r), EXTRA_UNCERTAINTY))
                    /\ forecasts[k].aggressiveBid = RoundTimes(b.aggressiveBid, r)
                    /\ forecasts[k].minimumBid = RoundTimes(b.minimumBid, r)

\* phase 3 derived from a phase 1 with numbers: its safeBid is above the
\* base's scaled by the ratio alone
C8_Witness ==
    /\ Len(forecasts) = 4
    /\ BaseIndex = 1
    /\ IsDerived(3)
    /\ forecasts[1].safeBid # NaN
    /\ forecasts[1].safeBid > 0
    /\ forecasts[3].safeBid > RoundTimes(forecasts[1].safeBid, RatioFor(3))

\* C10: on every curve the bids increase strictly and the probability never
\* decreases from one point to the next.
C10_CurveMonotone ==
    \A k \in Built :
        LET c == forecasts[k].probabilityData IN
        \A i \in 1..(Len(c) - 1) :
            /\ c[i].bid < c[i + 1].bid
            /\ c[i].probability <= c[i + 1].probability

\* a curve over price observations and a curve of a derived phase, each
\* rising from its first point to its last
C10_Witness ==
    /\ Len(forecasts) = 4
    /\ \E k \in 1..4 :
          /\ Len(Observed(k)) > 0
          /\ Len(forecasts[k].probabilityData) > 20
          /\ forecasts[k].probabilityData[1].probability
                 < forecasts[k].probabilityData[Len(forecasts[k].probabilityData)].probability
    /\ \E k \in 1..4 :
          /\ IsDerived(k)
          /\ Len(forecasts[k].probabilityData) > 20
          /\ forecasts[k].probabilityData[1].probability
                 < forecasts[k].probabilityData[Len(forecasts[k].probabilityData)].probability

\* ------------------------------------------------------------------------
\* generateForecast on one phase's history of any length up to MaxHistory
\* ------------------------------------------------------------------------
MaxHistory == 7

\* the term after a term, and the j-th term before Fall 2025
NextTerm(term) ==
    CASE term.season = "Winter" -> Term("Spring", term.year)
      [] term.season = "Spring" -> Term("Summer", term.year)
      [] term.season = "Summer" -> Term("Fall", term.year)
      [] term.season = "Fall" -> Term("Winter", term.year + 1)

TermBefore(j) ==
    LET seasonIndex == (3 + 3 * j) % 4
    IN  Term(CASE seasonIndex = 0 -> "Winter" [] seasonIndex = 1 -> "Spring"
               [] seasonIndex = 2 -> "Summer" [] seasonIndex = 3 -> "Fall",
             2025 - j \div 4)

\* n records of one phase over the n terms up to Summer 2025, oldest first,
\* the price starting at first and growing by step a term
History(n, phase, first, step) ==
    [i \in 1..n |-> Bid(TermBefore(n - i + 1), phase, first + (i - 1) * step, 0, 0)]

Histories ==
    {History(n, phase, first, step) :
        n \in 0..MaxHistory, phase \in {"1", "2"}, first \in {200, 300},
        step \in {0, 10, 20}}

InitHistory ==
    /\ historicalBids \in Histories
    /\ rating \in Ratings
    /\ meetingTime \in MeetingTimes
    /\ campus \in Campuses
    /\ currentTerm \in CurrentTerms
    /\ roundoff \in RoundoffOutcomes(historicalBids)
    /\ pc = "phase1"
    /\ forecasts = <<>>
    /\ strategyNotes = <<>>
    /\ overallRecommendation = ""
    /\ trendInput = NoTrendInput
    /\ trendResult = NoTrendResult
    /\ lookup = NoLookup
    /\ stats = NoStats
    /\ enhanced = NoEnhanced
    /\ uploader = NoUploader
    /\ planner = NoPlanner
    /\ earlier = NoForecast

SpecHistory == InitHistory /\ [][Next]_vars

\* C9 (as stated): the confidence of a derived result is the base phase's
\* confidence one tier down: medium for high, low for medium, and for low
\* the lowest ('insufficient', or 'low' read as the lowest tier with data).
OneTierDown(confidence) ==
    CASE confidence = "high" -> {"medium"}
      [] confidence = "medium" -> {"low"}
      [] confidence = "low" -> {"insufficient", "low"}
      [] OTHER -> {"insufficient"}

C9_ConfidenceOneTierDown ==
    Len(forecasts) = 4 =>
        \A k \in 1..4 :
            IsDerived(k) =>
                forecasts[k].confidence \in OneTierDown(forecasts[BaseIndex].confidence)

\* C9 (amended): the confidence of a derived result is 'low' whatever the
\* base phase's confidence is.
C9_DerivedConfidenceLow ==
    Len(forecasts) = 4 =>
        \A k \in 1..4 : IsDerived(k) => forecasts[k].confidence = "low"

\* a base phase of high confidence and a phase derived from it
C9_Witness ==
    /\ Len(forecasts) = 4
    /\ forecasts[BaseIndex].confidence = "high"
    /\ IsDerived(3)
    /\ forecasts[3].confidence = "low"

\* ------------------------------------------------------------------------
\* detectTrend alone, on equally weighted prices over consecutive terms
\* ------------------------------------------------------------------------
MaxSeries == 5

\* the n consecutive terms from a term on
RECURSIVE TermsFrom(_, _)
TermsFrom(term, n) ==
    IF n = 0 THEN <<>> ELSE <<term>> \o TermsFrom(NextTerm(term), n - 1)

\* the price series of n points from first with the given increments
RECURSIVE Series(_, _)
Series(first, increments) ==
    IF increments = <<>> THEN <<first>>
    ELSE <<first>> \o Series(first + Head(increments), Tail(increments))

TrendSteps == {0, 20, 21}
TrendStarts == {Term("Winter", 2025), Term("Spring", 2025), Term("Fall", 2024)}

TrendInputs ==
    UNION {
        {[prices |-> Series(200, increments),
          terms |-> TermsFrom(start, n),
          weights |-> [i \in 1..n |-> SC]] :
            increments \in [1..(n - 1) -> TrendSteps], start \in TrendStarts} :
        n \in TREND_MIN_POINTS..MaxSeries}

\* flat series: the same price, 0 or 100, at 3 to MaxSeries terms, the terms
\* in order or reversed, the weights equal or growing with the position
FlatPrices == {0, 100}

Reversed(s) == [i \in 1..Len(s) |-> s[Len(s) + 1 - i]]

FlatInputs ==
    UNION {
        {[prices |-> [i \in 1..n |-> price],
          terms |-> IF inOrder THEN TermsFrom(start, n) ELSE Reversed(TermsFrom(start, n)),
          weights |-> [i \in 1..n |-> IF equal THEN SC ELSE i * SC]] :
            price \in FlatPrices, start \in TrendStarts, inOrder \in BOOLEAN,
            equal \in BOOLEAN} :
        n \in TREND_MIN_POINTS..MaxSeries}

InitTrend ==
    /\ trendInput \in TrendInputs \cup FlatInputs
    /\ trendResult = NoTrendResult
    /\ lookup = NoLookup
    /\ stats = NoStats
    /\ enhanced = NoEnhanced
    /\ uploader = NoUploader
    /\ planner = NoPlanner
    /\ earlier = NoForecast
    /\ roundoff \in BOOLEAN
    /\ pc = "trend"
    /\ historicalBids = <<>>
    /\ rating = 0
    /\ meetingTime = NoMeetingTime
    /\ campus = ""
    /\ currentTerm \in CurrentTerms
    /\ forecasts = <<>>
    /\ strategyNotes = <<>>
    /\ overallRecommendation = ""

DetectTrend ==
    /\ pc = "trend"
    /\ trendResult' =
           detectTrend([i \in 1..Len(trendInput.prices) |-> Fx(trendInput.prices[i])],
                       [i \in 1..Len(trendInput.terms) |->
                           parseTermToNumber(trendInput.terms[i])],
                       trendInput.weights, roundoff)
    /\ pc' = "done"
    /\ UNCHANGED <<contextVars, callVars, trendInput, forecasts, strategyNotes,
                   overallRecommendation>>

NextTrend == DetectTrend

SpecTrend == InitTrend /\ [][NextTrend]_vars

\* a series rises strictly, and with little noise when its increments differ
\* by at most one point
StrictlyIncreasing(prices) == \A i \in 1..(Len(prices) - 1) : prices[i] < prices[i + 1]
LowNoise(prices) ==
    \A i, j \in 1..(Len(prices) - 1) :
        Abs((prices[i + 1] - prices[i]) - (prices[j + 1] - prices[j])) <= 1

\* C6: detectTrend on a strictly increasing series over distinct consecutive
\* terms with low (or no) noise returns 'rising', significantly so (p < 0.10)
\* with 4 points or more; the equally weighted [200, 220, 240] is among the
\* series.  An exact fit is given the round-off that makes it significant.
C6_IncreasingSeriesRising ==
    (/\ pc = "done"
     /\ trendResult # NoTrendResult
     /\ roundoff
     /\ StrictlyIncreasing(trendInput.prices)
     /\ LowNoise(trendInput.prices))
        => /\ trendResult.trend = "rising"
           /\ Len(trendInput.prices) >= 4 => trendResult.isSignificant

\* ------------------------------------------------------------------------
\* The lookups on the curves of a forecast: after generateForecast, a bid
\* strictly inside a curve's range is turned into a probability by
\* getWinProbabilityForBid and back into a bid by getBidForTargetProbability
\* ------------------------------------------------------------------------
MaxLookupObs == 2

LookupContexts == {c \in Contexts : Len(c) <= MaxLookupObs}

InitLookup ==
    /\ historicalBids \in LookupContexts
    /\ rating \in Ratings
    /\ meetingTime \in MeetingTimes
    /\ campus \in Campuses
    /\ currentTerm \in CurrentTerms
    /\ roundoff \in RoundoffOutcomes(historicalBids)
    /\ pc = "phase1"
    /\ forecasts = <<>>
    /\ strategyNotes = <<>>
    /\ overallRecommendation = ""
    /\ trendInput = NoTrendInput
    /\ trendResult = NoTrendResult
    /\ lookup = NoLookup
    /\ stats = NoStats
    /\ enhanced = NoEnhanced
    /\ uploader = NoUploader
    /\ planner = NoPlanner
    /\ earlier = NoForecast

Lookup ==
    /\ pc = "done"
    /\ lookup = NoLookup
    /\ \E k \in 1..Len(forecasts) :
          LET curve == forecasts[k].probabilityData
          IN  /\ Len(curve) >= 2
              /\ \E bid \in (curve[1].bid + 1)..(curve[Len(curve)].bid - 1) :
                    LET probability == getWinProbabilityForBid(bid, curve)
                    IN  lookup' = [phase |-> k, bid |-> bid,
                                   probability |-> probability,
                                   target |-> probability,
                                   found |-> getBidForTargetProbability(probability, curve)]
    /\ UNCHANGED <<contextVars, trendVars, earlier, stats, enhanced, uiVars, pc, forecasts, strategyNotes,
                   overallRecommendation>>

NextLookup == Next \/ Lookup

SpecLookup == InitLookup /\ [][NextLookup]_vars

\* the spacing between adjacent bids of the curve looked up
CurveStep == forecasts[lookup.phase].probabilityData[2].bid
                 - forecasts[lookup.phase].probabilityData[1].bid

\* C11: for a bid strictly between a curve's first and last bid, the bid
\* found back from its probability differs from it by at most one curve step
C11_RoundTripWithinOneStep ==
    lookup # NoLookup => Abs(lookup.found - lookup.bid) <= CurveStep

\* C12: every probability on every curve of a forecast is a whole percentage
\* between 0 and 100, for the phases with observations and for the phases
\* derived without any
C12_WholePercentages ==
    \A k \in 1..Len(forecasts) :
        \A i \in 1..Len(forecasts[k].probabilityData) :
            LET probability == forecasts[k].probabilityData[i].probability
            IN  /\ probability % SC = 0
                /\ probability >= 0
                /\ probability <= Fx(100)

\* ------------------------------------------------------------------------
\* generateForecast called twice with the same CourseContext.  Each
\* forecastPhase reads getCurrentTermNumber() from the clock (new Date()),
\* and the clock moves on to the next term at any moment.
\* ------------------------------------------------------------------------
MaxClockTerm == 20260

\* the term number getCurrentTermNumber() returns one term later
NextTermNumber(termNumber) ==
    IF termNumber % 10 = 3 THEN (termNumber \div 10 + 1) * 10 ELSE termNumber + 1

InitClock ==
    /\ historicalBids \in LookupContexts
    /\ rating \in Ratings
    /\ meetingTime \in MeetingTimes
    /\ campus \in Campuses
    /\ currentTerm \in CurrentTerms
    /\ roundoff \in RoundoffOutcomes(historicalBids)
    /\ pc = "phase1"
    /\ forecasts = <<>>
    /\ strategyNotes = <<>>
    /\ overallRecommendation = ""
    /\ trendInput = NoTrendInput
    /\ trendResult = NoTrendResult
    /\ lookup = NoLookup
    /\ stats = NoStats
    /\ enhanced = NoEnhanced
    /\ uploader = NoUploader
    /\ planner = NoPlanner
    /\ earlier = NoForecast

Tick ==
    /\ currentTerm < MaxClockTerm
    /\ currentTerm' = NextTermNumber(currentTerm)
    /\ UNCHANGED <<historicalBids, rating, meetingTime, campus, roundoff, pc,
                   forecasts, strategyNotes, overallRecommendation, trendVars, callVars>>

\* the caller keeps the CompleteForecast returned and calls again with the
\* same context
CallAgain ==
    /\ pc = "done"
    /\ earlier = NoForecast
    /\ earlier' = [forecasts |-> forecasts, strategyNotes |-> strategyNotes,
                   overallRecommendation |-> overallRecommendation]
    /\ pc' = "phase1"
    /\ forecasts' = <<>>
    /\ strategyNotes' = <<>>
    /\ overallRecommendation' = ""
    /\ UNCHANGED <<contextVars, trendVars, lookup, stats, enhanced, uiVars>>

NextClock == Next \/ Tick \/ CallAgain

SpecClock == InitClock /\ [][NextClock]_vars

\* C13: two invocations of generateForecast with equal CourseContext return
\* equal CompleteForecast, whenever they are made
C13_SameContextSameForecast ==
    (pc = "done" /\ earlier # NoForecast)
        => /\ earlier.forecasts = forecasts
           /\ earlier.strategyNotes = strategyNotes
           /\ earlier.overallRecommendation = overallRecommendation

\* ------------------------------------------------------------------------
\* generateForecast on contexts holding defaulted and malformed numeric
\* fields: a clearing price of 0, seats or bids of 0, a negative clearing
\* price
\* ------------------------------------------------------------------------
DefaultedPool ==
    << Bid(Term("Winter", 2025), "1", 200, 10, 30),
       Bid(Term("Spring", 2025), "1", 0, 0, 0),
       Bid(Term("Summer", 2025), "1", 0 - 50, 0, 0),
       Bid(Term("Spring", 2025), "1", 220, 0, 40),
       Bid(Term("Summer", 2025), "1", 240, 20, 0),
       Bid(Term("Winter", 2025), "2", 250, 0, 0) >>

MaxDefaultedObs == 3

\* the records of DefaultedPool at the positions in S, in the pool's order
RECURSIVE DefaultedSeq(_, _)
DefaultedSeq(S, i) ==
    IF i > Len(DefaultedPool) THEN <<>>
    ELSE (IF i \in S THEN <<DefaultedPool[i]>> ELSE <<>>) \o DefaultedSeq(S, i + 1)

DefaultedContexts ==
    {DefaultedSeq(S, 1) :
        S \in {S \in SUBSET (1..Len(DefaultedPool)) : Cardinality(S) <= MaxDefaultedObs}}

InitDefaulted ==
    /\ historicalBids \in DefaultedContexts
    /\ rating \in Ratings
    /\ meetingTime \in MeetingTimes
    /\ campus \in Campuses
    /\ currentTerm \in CurrentTerms
    /\ roundoff \in RoundoffOutcomes(historicalBids)
    /\ pc = "phase1"
    /\ forecasts = <<>>
    /\ strategyNotes = <<>>
    /\ overallRecommendation = ""
    /\ trendInput = NoTrendInput
    /\ trendResult = NoTrendResult
    /\ lookup = NoLookup
    /\ stats = NoStats
    /\ enhanced = NoEnhanced
    /\ uploader = NoUploader
    /\ planner = NoPlanner
    /\ earlier = NoForecast

SpecDefaulted == InitDefaulted /\ [][Next]_vars

Malformed == \E i \in 1..Len(historicalBids) : historicalBids[i].clearingPrice < 0

\* C14: on a malformed CourseContext (an observation with a negative
\* clearing price) generateForecast fails instead of returning a forecast:
\* it never gets to return a CompleteForecast
C14_MalformedContextFails ==
    Malformed => pc # "done"

\* the context without its observations of clearing price 0
WithoutZeroPrice == SelectSeq(historicalBids, LAMBDA b : b.clearingPrice # 0)

\* the forecast of phase k on the context without them
ForecastWithoutZeroPrice(k) ==
    forecastPhase(PhaseOf[k], normalizePhaseBids(WithoutZeroPrice, PhaseKeys[k]),
                  WithoutZeroPrice, rating, meetingTime, campus, currentTerm, roundoff)

\* the demand pressure of phase k from its observations that hold both seats
\* and bids, each with its own weight
DemandOfComplete(k) ==
    LET complete == SelectSeq(Observed(k),
                              LAMBDA b : b.spotsAvailable > 0 /\ b.bidsPlaced > 0)
    IN  calculateDemandPressure(SeriesBidsPlaced(complete), SeriesSpotsAvailable(complete),
                                SeriesWeights(complete, currentTerm))

\* C15: a zero numeric field is missing data: an observation with zero seats
\* or zero bids is left out of the demand ratio, and an observation with
\* clearing price 0 changes neither the phase's observation count, nor its
\* confidence, nor its expected price
C15_ZeroFieldsAreMissingData ==
    ~Malformed =>
        \A k \in Built :
            /\ forecasts[k].dataPoints = ForecastWithoutZeroPrice(k).dataPoints
            /\ forecasts[k].confidence = ForecastWithoutZeroPrice(k).confidence
            /\ forecasts[k].expectedPrice = ForecastWithoutZeroPrice(k).expectedPrice
            /\ Len(Observed(k)) > 0 => forecasts[k].demandPressure = DemandOfComplete(k)

\* the margin of n observations at volatility v: 0.15 + 0.10 max(0, 6 - n)
\* + 0.3 v, clamped to [0.05, 0.50]
MarginOf(n, v) ==
    LET raw == 1500 + 1000 * (IF n < 6 THEN 6 - n ELSE 0) + (3 * v) \div 10
    IN  IF raw < 500 THEN 500 ELSE IF raw > 5000 THEN 5000 ELSE raw

\* C16: for a phase with n >= 1 direct observations, volatility v and
\* expected price E, safeBid = round(E (1 + margin)), aggressiveBid = E and
\* minimumBid = round(E (1 - margin / 2)), margin being 0.15 + 0.10 max(0, 6 - n)
\* + 0.3 v clamped to [0.05, 0.50]; where E is NaN the three bids are NaN
C16_BidsFromMargin ==
    \A k \in Built :
        Len(Observed(k)) >= 1 =>
            LET f == forecasts[k]
                margin == MarginOf(Len(Observed(k)), f.volatility)
            IN  /\ f.safeBid = RoundTimes(f.expectedPrice, SC + margin)
                /\ f.aggressiveBid = f.expectedPrice
                /\ f.minimumBid = RoundTimes(f.expectedPrice, SC - margin \div 2)

\* a phase with direct observations and a price, once with the margin at its
\* upper clamp and once with a margin inside the range
C16_Witness ==
    /\ pc = "done"
    /\ \E k \in Built :
          /\ Len(Observed(k)) = 1
          /\ IsNumber(forecasts[k].expectedPrice)
          /\ forecasts[k].safeBid > forecasts[k].expectedPrice
    /\ \E k \in Built :
          /\ Len(Observed(k)) >= 3
          /\ IsNumber(forecasts[k].expectedPrice)
          /\ forecasts[k].volatility > 0
          /\ MarginOf(Len(Observed(k)), forecasts[k].volatility) < 5000

\* ------------------------------------------------------------------------
\* generateForecast on a phase-1 history of 0 to MaxRatedHistory terms,
\* flat at 100 or rising by 10 a term, for a professor without rating and
\* with ratings 4.0, 5.0 and 6.0
\* ------------------------------------------------------------------------
MaxRatedHistory == 7

RatedHistories ==
    {History(n, "1", 100, step) : n \in 0..MaxRatedHistory, step \in {0, 10}}

RatedRatings == {0, Fx(4), Fx(5), Fx(6)}

InitRated ==
    /\ historicalBids \in RatedHistories
    /\ rating \in RatedRatings
    /\ meetingTime \in MeetingTimes
    /\ campus \in Campuses
    /\ currentTerm \in CurrentTerms
    /\ roundoff \in RoundoffOutcomes(historicalBids)
    /\ pc = "phase1"
    /\ forecasts = <<>>
    /\ strategyNotes = <<>>
    /\ overallRecommendation = ""
    /\ trendInput = NoTrendInput
    /\ trendResult = NoTrendResult
    /\ lookup = NoLookup
    /\ stats = NoStats
    /\ enhanced = NoEnhanced
    /\ uploader = NoUploader
    /\ planner = NoPlanner
    /\ earlier = NoForecast

SpecRated == InitRated /\ [][Next]_vars

\* the tier of n observations: 'high' from 6, 'medium' from 3 to 5, 'low' for
\* 1 and 2, 'insufficient' for 0
TierOf(n) ==
    IF n >= 6 THEN "high" ELSE IF n >= 3 THEN "medium"
    ELSE IF n >= 1 THEN "low" ELSE "insufficient"

\* C17: the confidence of a phase forecast directly from n observations is
\* the tier of n, whatever the prices, the terms and the rating; a context
\* without observations gives 'insufficient'
C17_ConfidenceStepFunction ==
    \A k \in Built :
        /\ Len(Observed(k)) >= 1 => forecasts[k].confidence = TierOf(Len(Observed(k)))
        /\ Len(historicalBids) = 0 => forecasts[k].confidence = TierOf(0)
        /\ forecasts[k].confidence = "insufficient" => Len(Observed(k)) = 0

\* six observations of rising prices, with a rating: 'high'
C17_Witness ==
    /\ pc = "done"
    /\ Len(Observed(1)) = 6
    /\ rating = Fx(6)
    /\ Observed(1)[1].clearingPrice < Observed(1)[6].clearingPrice
    /\ forecasts[1].confidence = "high"

\* the phase-1 forecast of the context for a professor without rating
ForecastUnrated ==
    forecastPhase("1", Observed(1), historicalBids, 0, meetingTime, campus,
                  currentTerm, roundoff)

FlatAt100 ==
    /\ Len(Observed(1)) >= 1
    /\ \A i \in 1..Len(historicalBids) :
          historicalBids[i].phase = "1" /\ historicalBids[i].clearingPrice = 100

Flat(prices) == \A i, j \in 1..Len(prices) : prices[i] = prices[j]

\* C18: detectTrend on a perfectly flat series (the same price, any constant
\* >= 0, at 3 or more terms) returns 'stable' and strength exactly 0, for
\* every choice of positive weights and every arrangement of the terms
C18_FlatSeriesStable ==
    (pc = "done" /\ trendResult # NoTrendResult /\ Flat(trendInput.prices))
        => /\ trendResult.trend = "stable"
           /\ trendResult.strength = 0

\* ------------------------------------------------------------------------
\* weightedStatistics alone: a series of 1 to MaxValues values with positive
\* weights, then percentile(p1), percentile(p2) and median read off its result
\* ------------------------------------------------------------------------
MaxValues == 3

StatsValues == {Fx(0), Fx(100), Fx(200)}

StatsWeights == {SC, 3 * SC}

\* p from below 0 to beyond the total weight
StatsP == {0 - 2500, 0, 2500, 3333, 7500, 15000}

StatsInputs ==
    UNION {
        {[values |-> v, weights |-> w, p1 |-> p1, p2 |-> p2,
          low |-> 0, high |-> 0, median |-> 0] :
            v \in [1..n -> StatsValues], w \in [1..n -> StatsWeights],
            p1 \in StatsP, p2 \in {SC \div 2, SC}} :
        n \in 1..MaxValues}

InitStats ==
    /\ stats \in StatsInputs
    /\ enhanced = NoEnhanced
    /\ uploader = NoUploader
    /\ planner = NoPlanner
    /\ pc = "stats"
    /\ historicalBids = <<>>
    /\ rating = 0
    /\ meetingTime = NoMeetingTime
    /\ campus = ""
    /\ currentTerm \in CurrentTerms
    /\ roundoff = FALSE
    /\ forecasts = <<>>
    /\ strategyNotes = <<>>
    /\ overallRecommendation = ""
    /\ trendInput = NoTrendInput
    /\ trendResult = NoTrendResult
    /\ lookup = NoLookup
    /\ earlier = NoForecast

WeightedStatistics ==
    /\ pc = "stats"
    /\ stats' = [stats EXCEPT
                    !.low = percentile(stats.values, stats.weights, stats.p1),
                    !.high = percentile(stats.values, stats.weights, stats.p2),
                    !.median = median(stats.values, stats.weights)]
    /\ pc' = "done"
    /\ UNCHANGED <<contextVars, trendVars, lookup, earlier, enhanced, uiVars, forecasts, strategyNotes,
                   overallRecommendation>>

NextStats == WeightedStatistics

SpecStats == InitStats /\ [][NextStats]_vars

\* cumulative normalized weight of the values up to v, and of those above it
WeightUpTo(v) ==
    LET nw == normalizedWeights(stats.weights)
    IN  SeqSum([i \in 1..Len(nw) |-> IF stats.values[i] <= v THEN nw[i] ELSE 0])

WeightAbove(v) ==
    LET nw == normalizedWeights(stats.weights)
    IN  SeqSum([i \in 1..Len(nw) |-> IF stats.values[i] > v THEN nw[i] ELSE 0])

\* v is the smallest value of the series whose cumulative normalized weight
\* reaches p, the maximum value if none does
SmallestReaching(v, p) ==
    LET range == {stats.values[i] : i \in 1..Len(stats.values)}
        reaching == {u \in range : WeightUpTo(u) >= p}
    IN  /\ v \in range
        /\ IF reaching = {} THEN \A u \in range : u <= v
           ELSE v \in reaching /\ \A u \in reaching : v <= u

\* C19: for a non-empty value series with positive weights, percentile(p) is
\* the smallest value whose cumulative normalized weight reaches p (the
\* maximum value if none does), percentile is monotone in p, and median is
\* percentile(0.5), the weighted median: the values below it weigh less than
\* half and the values above it at most half
C19_PercentileSmallestReaching ==
    (pc = "done" /\ stats # NoStats)
        => /\ SmallestReaching(stats.low, stats.p1)
           /\ SmallestReaching(stats.high, stats.p2)
           /\ (stats.p1 <= stats.p2 => stats.low <= stats.high)
           /\ (stats.p2 <= stats.p1 => stats.high <= stats.low)
           /\ (stats.p2 = SC \div 2 => stats.median = stats.high)
           /\ WeightUpTo(stats.median) >= SC \div 2
           /\ WeightAbove(stats.median) <= SC \div 2
           /\ \A i \in 1..Len(stats.values) :
                 stats.values[i] < stats.median
                     => WeightUpTo(stats.values[i]) < SC \div 2

\* an unsorted series with unequal weights (cumulative 0.2, 0.8, 1 in the
\* order of the values): percentile(0.25) and the median are the middle value
\* and percentile(1), reached exactly by the whole weight, the greatest
C19_Witness ==
    /\ pc = "done"
    /\ stats.values = <<Fx(200), Fx(0), Fx(100)>>
    /\ stats.weights = <<SC, SC, 3 * SC>>
    /\ stats.p1 = 2500
    /\ stats.p2 = SC
    /\ stats.low = Fx(100)
    /\ stats.high = Fx(200)
    /\ stats.median = Fx(100)

\* ------------------------------------------------------------------------
\* The two lookups on a curve of a forecast, each with an argument of its
\* own: a bid below, on, inside and beyond the curve, and a target
\* probability from below 0 to above 100
\* ------------------------------------------------------------------------
LookupBids(curve) ==
    LET first == curve[1].bid
        last == curve[Len(curve)].bid
    IN  {0 - 5, 0, first - 1, first, first + 1, first + 2, (first + last) \div 2,
         last - 1, last, last + 1}

LookupTargets == {Fx(0 - 10), Fx(0), Fx(1), Fx(25), Fx(50), Fx(75), Fx(99), Fx(100), Fx(110)}

LookupAt ==
    /\ pc = "done"
    /\ lookup = NoLookup
    /\ \E k \in 1..Len(forecasts) :
          LET curve == forecasts[k].probabilityData
          IN  /\ Len(curve) >= 1
              /\ \E bid \in LookupBids(curve), target \in LookupTargets :
                    lookup' = [phase |-> k, bid |-> bid,
                               probability |-> getWinProbabilityForBid(bid, curve),
                               target |-> target,
                               found |-> getBidForTargetProbability(target, curve)]
    /\ UNCHANGED <<contextVars, trendVars, earlier, stats, enhanced, uiVars, pc, forecasts, strategyNotes,
                   overallRecommendation>>

NextLookupAt == Next \/ LookupAt

SpecLookupAt == InitLookup /\ [][NextLookupAt]_vars

\* x lies between a and b, whichever of the two is the greater
Between(x, a, b) == Min(a, b) <= x /\ x <= Max(a, b)

\* C21: on a non-empty curve getWinProbabilityForBid returns the first point's
\* probability for a bid at or below the first bid, the last point's for a bid
\* at or above the last bid, and otherwise a value between the probabilities
\* of two adjacent points that bracket the bid; getBidForTargetProbability
\* returns a bid within [first bid, last bid], between the bids of two
\* adjacent points whose probabilities bracket the target when there are such
C21_LookupsClampAndInterpolate ==
    lookup # NoLookup
        => LET curve == forecasts[lookup.phase].probabilityData
               n == Len(curve)
               target == Max(0, Min(Fx(100), lookup.target))
               bracketing == {i \in 1..(n - 1) :
                                 /\ curve[i].probability <= target
                                 /\ target <= curve[i + 1].probability}
           IN  /\ lookup.bid <= curve[1].bid
                     => lookup.probability = curve[1].probability
               /\ lookup.bid >= curve[n].bid
                     => lookup.probability = curve[n].probability
               /\ (curve[1].bid < lookup.bid /\ lookup.bid < curve[n].bid)
                     => \E i \in 1..(n - 1) :
                           /\ curve[i].bid <= lookup.bid
                           /\ lookup.bid <= curve[i + 1].bid
                           /\ Between(lookup.probability, curve[i].probability,
                                      curve[i + 1].probability)
               /\ Between(lookup.found, curve[1].bid, curve[n].bid)
               /\ bracketing # {}
                     => \E i \in bracketing :
                           Between(lookup.found, curve[i].bid, curve[i + 1].bid)

\* the number of academic terms from a term to the term of number
\* currentTermNumber, four to the year
TermsBetween(term, currentTermNumber) ==
    (currentTermNumber \div 10 - term.year) * 4
        + ((currentTermNumber % 10) - seasonOrder(term.season))

\* C22: the age of an observation is the number of academic terms between its
\* term and the current term divided by 4, Fall to the next Winter counting as
\* one term like any other step; its time weight and the inflation of its
\* price are those of that age (exp(-0.3) and 1.03 a year back)
C22_AgeIsTermsOverFour ==
    pc = "done"
        => \A i \in 1..Len(historicalBids) :
              LET term == historicalBids[i].term
                  age == IF term.season \in Seasons
                         THEN (TermsBetween(term, currentTerm) * SC) \div 4 ELSE 0
              IN  term.season \in Seasons
                    => /\ YearsDiff(parseTermToNumber(term), currentTerm) = age
                       /\ SeriesWeights(historicalBids, currentTerm)[i]
                             = Exp(0 - Mul(TIME_DECAY_FACTOR, age))
                       /\ SeriesPrices(historicalBids, currentTerm)[i]
                             = Mul(Fx(historicalBids[i].clearingPrice),
                                   inflationFactor(age))

\* C23: the demand pressure of a phase with observations comes from the
\* weighted mean of bidsPlaced / spotsAvailable over its observations with
\* both values positive, each ratio made of the bids, the seats and the time
\* weight of one and the same observation; an observation lacking seats or
\* bids is skipped and does not change how the others are paired
C23_DemandPairsSameObservation ==
    pc = "done"
        => \A k \in 1..Len(forecasts) :
              Len(Observed(k)) > 0 => forecasts[k].demandPressure = DemandOfComplete(k)

\* C24: a phase without observations is derived from whichever of phase 1 and
\* phase 2 has more observations, phase 1 on a tie; phases 3 and 4 are never
\* the base, so with phases 1 and 2 both empty every empty phase gets the
\* all-zero 'insufficient' result
C24_BaseIsLargerOfPhase1And2 ==
    pc = "done"
        => \A k \in 1..4 :
              Len(Observed(k)) = 0
                  => IF Len(Observed(1)) = 0 /\ Len(Observed(2)) = 0
                     THEN forecasts[k] = NoDataResult(PhaseOf[k])
                     ELSE LET b == IF Len(Observed(1)) >= Len(Observed(2)) THEN 1 ELSE 2
                          IN  forecasts[k] =
                                  DerivedResult(PhaseOf[k], forecasts[b],
                                      PhaseRelationship(PhaseOf[b], PhaseOf[k],
                                          calculateDataDrivenPhaseMultipliers(historicalBids)))

\* phase 2 holds two observations, phase 1 one and phase 3 none: phase 3 is
\* derived from the two of phase 2
C24_Witness ==
    /\ pc = "done"
    /\ Len(Observed(1)) = 1
    /\ Len(Observed(2)) = 2
    /\ Len(Observed(3)) = 0
    /\ forecasts[3].dataPoints = 2
    /\ HasFactor(forecasts[3], "Cross-Phase Estimate")

\* ------------------------------------------------------------------------
\* generateForecast run to its end: its statements execute one after the
\* other, none waits
\* ------------------------------------------------------------------------
\* the statement after the one at pc
Following(at) ==
    CASE at = "phase1" -> "phase2"
      [] at = "phase2" -> "phase3"
      [] at = "phase3" -> "phase4"
      [] at = "phase4" -> "notes"
      [] at = "notes" -> "done"
      [] OTHER -> at

\* control passes on from every statement but the last.  Next is enabled
\* exactly where pc is not "done" and each of its steps is such a step, so
\* fairness to Proceed is fairness to Next.
Proceed == pc # "done" /\ pc' = Following(pc)

SpecFair == InitLookup /\ [][Next]_vars /\ WF_pc(Proceed)

\* the Cross-Phase Estimate factors of a result: one per derivation
CrossPhaseFactors(f) ==
    Cardinality({i \in 1..Len(f.factors) : f.factors[i].name = "Cross-Phase Estimate"})

\* C25: cross-phase estimation is a one-level lookup and generateForecast
\* terminates: the base call estimateFromOtherPhases makes has a non-empty
\* list and computes a direct result, so no derivation nests in another (a
\* result carries at most one Cross-Phase Estimate factor, none when
\* direct), and every run reaches its end
C25_OneLevelAndTerminates ==
    /\ [](\A k \in 1..4 :
            LET nesting == forecastPhaseNesting(Observed(k), historicalBids)
            IN  /\ nesting <= 1
                /\ k \in Built
                      => /\ nesting = 0
                            => /\ CrossPhaseFactors(forecasts[k]) = 0
                               /\ ~HasFactor(forecasts[k], "No Data")
                         /\ nesting = 1
                            => \/ forecasts[k] = NoDataResult(PhaseOf[k])
                               \/ /\ CrossPhaseFactors(forecasts[k]) = 1
                                  /\ forecasts[k].dataPoints >= 1)
    /\ <>(pc = "done")

\* phase 3 without observations derived from phase 1, at the end of a run
C25_Witness ==
    /\ pc = "done"
    /\ Len(Observed(1)) >= 1
    /\ Len(Observed(3)) = 0
    /\ forecastPhaseNesting(Observed(3), historicalBids) = 1
    /\ CrossPhaseFactors(forecasts[3]) = 1

\* the results whose curve generateWinProbabilityCurve made: all but the
\* result without any data
Curved(k) == k \in Built /\ ~HasFactor(forecasts[k], "No Data")

\* the bids of a curve are evenly spaced by an integer step >= 1 from
\* round(0.5 E) on
EvenlySpacedFromHalf(curve, E) ==
    /\ Len(curve) >= 2
    /\ curve[1].bid = Round(Mul(Fx(E), SC \div 2))
    /\ curve[2].bid - curve[1].bid >= 1
    /\ \A i \in 1..(Len(curve) - 1) :
          curve[i + 1].bid - curve[i].bid = curve[2].bid - curve[1].bid

\* C26 as stated: for expected price E > 0 the curve's bids are strictly
\* increasing and evenly spaced by one integer step >= 1, the first bid is
\* round(0.5 E), the last bid is round(1.5 E) and there are about 40 points
\* (here: 30 to 50); for E <= 0 the curve is empty
C26_CurveSpansHalfToOneAndAHalf ==
    \A k \in 1..Len(forecasts) :
        Curved(k) =>
            LET E == forecasts[k].expectedPrice
                curve == forecasts[k].probabilityData
            IN  IF E # NaN /\ E > 0
                THEN /\ EvenlySpacedFromHalf(curve, E)
                     /\ curve[Len(curve)].bid = Round(Mul(Fx(E), 15000))
                     /\ Len(curve) >= 30
                     /\ Len(curve) <= 50
                ELSE curve = <<>>

\* C26, amended: the last bid is the last multiple of the step from the first
\* bid that does not pass round(1.5 E), so less than one step below it, and
\* the points number 2 to 60, 31 to 50 from E = 60 on
C26_CurveEndsWithinOneStep ==
    \A k \in 1..Len(forecasts) :
        Curved(k) =>
            LET E == forecasts[k].expectedPrice
                curve == forecasts[k].probabilityData
                last == curve[Len(curve)].bid
                step == curve[2].bid - curve[1].bid
            IN  IF E # NaN /\ E > 0
                THEN /\ EvenlySpacedFromHalf(curve, E)
                     /\ last <= Round(Mul(Fx(E), 15000))
                     /\ last + step > Round(Mul(Fx(E), 15000))
                     /\ Len(curve) <= 60
                     /\ E >= 60 => Len(curve) >= 31 /\ Len(curve) <= 50
                ELSE curve = <<>>

\* a curve that stops short of round(1.5 E) and the empty curve of a negative
\* expected price
C26_Witness ==
    /\ pc = "done"
    /\ \E k \in 1..4 :
          /\ Curved(k)
          /\ forecasts[k].expectedPrice # NaN
          /\ forecasts[k].expectedPrice > 0
          /\ forecasts[k].probabilityData[Len(forecasts[k].probabilityData)].bid
                < Round(Mul(Fx(forecasts[k].expectedPrice), 15000))
    /\ \E k \in 1..4 :
          /\ Curved(k)
          /\ forecasts[k].expectedPrice < 0
          /\ forecasts[k].probabilityData = <<>>

\* the description of the Cross-Phase Estimate factor of a result
CrossPhaseLabel(f) == f.factors[Len(f.factors)].description

\* C27: in every result of generateForecast a derived result has confidence
\* 'low'; the derived phase shares no term with phase 1, so from base phase 1
\* the ratio is the configured default (1.15, 0.85 or 0.70) and is labelled
\* 'estimated', and a ratio drawn from the data enters only as the
\* phase-2/phase-1 divisor from base phase 2 to phase 3 or 4
C27_DerivedLowDefaultFromPhase1 ==
    pc = "done"
        => \A k \in 1..4 :
              IsDerived(k)
                  => /\ forecasts[k].confidence = "low"
                     /\ CoTerms(PhaseOf[k]) = {}
                     /\ BaseIndex = 1
                           => /\ forecasts[k].expectedPrice
                                    = RoundTimes(forecasts[1].expectedPrice,
                                                 DefaultRatio(PhaseOf[k]))
                              /\ CrossPhaseLabel(forecasts[k]) = "estimated"
                     /\ (BaseIndex = 2 /\ k = 1)
                           => forecasts[k].expectedPrice
                                 = RoundTimes(forecasts[2].expectedPrice, Div(SC, P2_VS_P1))
                     /\ (BaseIndex = 2 /\ k > 2)
                           => forecasts[k].expectedPrice
                                 = RoundTimes(forecasts[2].expectedPrice,
                                              Div(DefaultRatio(PhaseOf[k]), PairRatio("2")))

\* phase 3 derived from a phase 1 that shares terms with phase 2, at the
\* default 0.85 labelled 'estimated', or derived from phase 2 over a
\* phase-2/phase-1 ratio taken from the data
C27_Witness ==
    /\ pc = "done"
    /\ IsDerived(3)
    /\ forecasts[3].confidence = "low"
    /\ forecasts[BaseIndex].expectedPrice # NaN
    /\ forecasts[BaseIndex].expectedPrice > 0
    /\ \/ /\ BaseIndex = 1
          /\ Len(Observed(1)) >= 3
          /\ Cardinality(CoTerms("2")) >= 2
          /\ CrossPhaseLabel(forecasts[3]) = "estimated"
          /\ forecasts[3].expectedPrice
                = RoundTimes(forecasts[1].expectedPrice, P3_VS_P1)
       \/ /\ BaseIndex = 2
          /\ PairRatio("2") # P2_VS_P1
          /\ forecasts[3].expectedPrice
                # RoundTimes(forecasts[2].expectedPrice, Div(P3_VS_P1, P2_VS_P1))

\* ---------------------------------------------------------------------
\* calculateEnhancedForecasts: the legacy entry point.  A phase tag of the
\* Phase type is the sequence of its characters.

UpperCase == <<"A", "B", "C", "D", "E", "F", "G", "H", "I", "J", "K", "L", "M",
               "N", "O", "P", "Q", "R", "S", "T", "U", "V", "W", "X", "Y", "Z">>
LowerCase == <<"a", "b", "c", "d", "e", "f", "g", "h", "i", "j", "k", "l", "m",
               "n", "o", "p", "q", "r", "s", "t", "u", "v", "w", "x", "y", "z">>

toLowerCase(s) ==
    [i \in 1..Len(s) |->
        IF \E j \in 1..Len(UpperCase) : UpperCase[j] = s[i]
        THEN LowerCase[CHOOSE j \in 1..Len(UpperCase) : UpperCase[j] = s[i]]
        ELSE s[i]]

includes(s, sub) ==
    \E i \in 0..(Len(s) - Len(sub)) : SubSeq(s, i + 1, i + Len(sub)) = sub

\* normalizePhase sending every tag it does not know to a group of its own
normalizePhase_KeepUnknown(phase) ==
    LET p == toLowerCase(phase)
    IN  IF p = <<"1">> \/ includes(p, <<"p", "h", "a", "s", "e", " ", "1">>) THEN "1"
        ELSE IF p = <<"2">> \/ includes(p, <<"p", "h", "a", "s", "e", " ", "2">>) THEN "2"
        ELSE IF p = <<"3">> \/ includes(p, <<"p", "h", "a", "s", "e", " ", "3">>) THEN "3"
        ELSE IF \/ p = <<"4">>
                \/ includes(p, <<"p", "w", "y", "b">>)
                \/ includes(p, <<"p", "a", "y">>)
                \/ includes(p, <<"a", "d", "d", "/", "d", "r", "o", "p">>) THEN "4"
        ELSE "Unknown"

normalizePhase(phase) ==
    LET p == toLowerCase(phase)
    IN  IF p = <<"1">> \/ includes(p, <<"p", "h", "a", "s", "e", " ", "1">>) THEN "1"
        ELSE IF p = <<"2">> \/ includes(p, <<"p", "h", "a", "s", "e", " ", "2">>) THEN "2"
        ELSE IF p = <<"3">> \/ includes(p, <<"p", "h", "a", "s", "e", " ", "3">>) THEN "3"
        ELSE IF \/ p = <<"4">>
                \/ includes(p, <<"p", "w", "y", "b">>)
                \/ includes(p, <<"p", "a", "y">>)
                \/ includes(p, <<"a", "d", "d", "/", "d", "r", "o", "p">>) THEN "4"
        ELSE "1"

\* the values of the Phase type, and the spellings of pay-what-you-bid
AddDropTag == <<"A", "d", "d", "/", "D", "r", "o", "p">>
YearLongTag == <<"Y", "e", "a", "r", "-", "L", "o", "n", "g">>
UnknownTag == <<"U", "n", "k", "n", "o", "w", "n">>
PWYBTag == <<"P", "W", "Y", "B">>
PayTag == <<"P", "a", "y", " ", "W", "h", "a", "t", " ", "Y", "o", "u", " ", "B", "i", "d">>

\* one course's bids as the ingestion hands them over
EnhancedPool ==
    << Bid(Term("Winter", 2025), <<"1">>, 200, 40, 60),
       Bid(Term("Winter", 2025), <<"2">>, 230, 10, 30),
       Bid(Term("Spring", 2025), <<"3">>, 150, 5, 8),
       Bid(Term("Spring", 2025), <<"4">>, 90, 3, 2),
       Bid(Term("Winter", 2025), AddDropTag, 60, 2, 1),
       Bid(Term("Spring", 2025), YearLongTag, 300, 40, 70),
       Bid(Term("Summer", 2025), UnknownTag, 120, 40, 20),
       Bid(Term("Summer", 2025), PWYBTag, 100, 4, 4),
       Bid(Term("Summer", 2025), PayTag, 110, 4, 6) >>

MaxEnhancedObs == 3

RECURSIVE EnhancedSeq(_, _)
EnhancedSeq(S, i) ==
    IF i > Len(EnhancedPool) THEN <<>>
    ELSE (IF i \in S THEN <<EnhancedPool[i]>> ELSE <<>>) \o EnhancedSeq(S, i + 1)

EnhancedInputs ==
    {EnhancedSeq(S, 1) :
        S \in {S \in SUBSET (1..Len(EnhancedPool)) : Cardinality(S) <= MaxEnhancedObs}}

\* bids.map(b => ({..., phase: normalizePhase(b.phase), ...}))
ConvertedBids(bids) ==
    [i \in 1..Len(bids) |->
        Bid(bids[i].term, normalizePhase(bids[i].phase), bids[i].clearingPrice,
            bids[i].spotsAvailable, bids[i].bidsPlaced)]

InitEnhanced ==
    /\ enhanced \in {[bids |-> b, result |-> <<>>] : b \in EnhancedInputs}
    /\ historicalBids = <<>>
    /\ rating \in Ratings
    /\ meetingTime \in MeetingTimes
    /\ campus \in Campuses
    /\ currentTerm \in CurrentTerms
    /\ roundoff \in RoundoffOutcomes(ConvertedBids(enhanced.bids))
    /\ pc = "convert"
    /\ forecasts = <<>>
    /\ strategyNotes = <<>>
    /\ overallRecommendation = ""
    /\ trendInput = NoTrendInput
    /\ trendResult = NoTrendResult
    /\ lookup = NoLookup
    /\ stats = NoStats
    /\ earlier = NoForecast
    /\ uploader = NoUploader
    /\ planner = NoPlanner

\* the context is built and generateForecast entered
ConvertBids ==
    /\ pc = "convert"
    /\ historicalBids' = ConvertedBids(enhanced.bids)
    /\ pc' = "phase1"
    /\ UNCHANGED <<rating, meetingTime, campus, currentTerm, roundoff, trendVars,
                   callVars, forecasts, strategyNotes, overallRecommendation>>

demandLevel(pressure) ==
    IF pressure > 8000 THEN "very_high"
    ELSE IF pressure > 6000 THEN "high"
    ELSE IF pressure > 4000 THEN "moderate"
    ELSE "low"

\* generateForecast has returned: the legacy result is put together
ReturnEnhanced ==
    /\ pc = "done"
    /\ enhanced' = [enhanced EXCEPT !.result =
           [forecastR1 |-> forecasts[1].safeBid,
            forecastR2 |-> forecasts[2].safeBid,
            forecastR3 |-> forecasts[3].safeBid,
            forecastR4 |-> forecasts[4].safeBid,
            confidence |-> forecasts[1].confidence,
            trend |-> forecasts[1].trend,
            demandLevel |-> demandLevel(forecasts[1].demandPressure),
            strategyNotes |-> strategyNotes,
            probabilityDataR1 |-> forecasts[1].probabilityData,
            probabilityDataR2 |-> forecasts[2].probabilityData]]
    /\ pc' = "returned"
    /\ UNCHANGED <<contextVars, trendVars, lookup, earlier, stats, uiVars, forecasts,
                   strategyNotes, overallRecommendation>>

NextEnhanced == ConvertBids \/ Next \/ ReturnEnhanced

SpecEnhanced == InitEnhanced /\ [][NextEnhanced]_vars

\* the phase the tag of an observation stands for
PhaseOfTag(tag) ==
    IF tag \in {<<"1">>, <<"2">>, <<"3">>, <<"4">>} THEN tag[1]
    ELSE IF tag \in {AddDropTag, PWYBTag, PayTag} THEN "4"
    ELSE "1"

\* the observations handed over whose tag stands for phase k
HandedOver(k) == {i \in 1..Len(enhanced.bids) : PhaseOfTag(enhanced.bids[i].phase) = PhaseOf[k]}

\* the groups of generateForecast the i-th record of the context is in
GroupsOf(i) == {k \in 1..4 : \E key \in PhaseKeys[k] : PhaseIncludes(historicalBids[i].phase, key)}

\* C28: every observation passed to calculateEnhancedForecasts is counted in
\* exactly one of the four phase groups and none is dropped: tags 1-4 go to
\* their own phase, add/drop, PWYB and pay tags to phase 4, any other tag
\* ("Unknown", "Year-Long") to phase 1
C28_EveryObservationInOneGroup ==
    pc # "convert"
        => /\ Len(historicalBids) = Len(enhanced.bids)
           /\ \A i \in 1..Len(enhanced.bids) :
                 /\ GroupsOf(i) = {k \in 1..4 : PhaseOf[k] = PhaseOfTag(enhanced.bids[i].phase)}
                 /\ Cardinality(GroupsOf(i)) = 1
                 /\ historicalBids[i].clearingPrice = enhanced.bids[i].clearingPrice
           /\ \A k \in 1..4 :
                 /\ Len(Observed(k)) = Cardinality(HandedOver(k))
                 /\ (k \in Built /\ HandedOver(k) # {})
                       => forecasts[k].dataPoints = Cardinality(HandedOver(k))

\* "Unknown" and "Year-Long" counted with a phase-1 record, and in another
\* call an add/drop and a pay-what-you-bid record counted as phase 4
C28_Witness ==
    /\ pc = "returned"
    /\ Len(enhanced.bids) = 3
    /\ \/ /\ \E i \in 1..3 : enhanced.bids[i].phase = UnknownTag
          /\ \E i \in 1..3 : enhanced.bids[i].phase = YearLongTag
          /\ forecasts[1].dataPoints = 3
          /\ forecasts[4].confidence = "low"
       \/ /\ \E i \in 1..3 : enhanced.bids[i].phase = AddDropTag
          /\ \E i \in 1..3 : enhanced.bids[i].phase = PayTag
          /\ forecasts[4].dataPoints = 2
          /\ enhanced.result.forecastR4 = forecasts[4].safeBid

\* ---------------------------------------------------------------------
\* DataUploader.  Each click of the button is an invocation of processFiles
\* with its own bidsData, reviewsData, scheduleData and filesProcessed; a
\* Papa.parse of a file ends in one call of complete or one call of error,
\* and the three of an invocation end in any order.

Slots == {"bids", "reviews", "schedule"}
NoFile == ""

\* the file the user can put in each input
FilesFor(slot) ==
    IF slot = "bids" THEN {"bids.csv"}
    ELSE IF slot = "reviews" THEN {"reviews.csv"}
    ELSE {"schedule.csv"}

\* results.data of the parse of a file
Rows(file) == <<file>>

totalFiles == 3

MaxInvocations == 2

\* engine variables while the uploader is on screen
engineVars == <<contextVars, pc, forecasts, strategyNotes, overallRecommendation,
                trendVars, lookup, earlier, stats, enhanced>>

InitUploader ==
    /\ uploader = [mounted |-> TRUE,
                   file |-> [slot \in Slots |-> NoFile],
                   loading |-> FALSE,
                   error |-> "null",
                   invocations |-> <<>>,
                   loaded |-> <<>>]
    /\ planner = NoPlanner
    /\ historicalBids = <<>>
    /\ rating = 0
    /\ meetingTime = NoMeetingTime
    /\ campus = ""
    /\ currentTerm \in CurrentTerms
    /\ roundoff = FALSE
    /\ pc = "idle"
    /\ forecasts = <<>>
    /\ strategyNotes = <<>>
    /\ overallRecommendation = ""
    /\ trendInput = NoTrendInput
    /\ trendResult = NoTrendResult
    /\ lookup = NoLookup
    /\ stats = NoStats
    /\ earlier = NoForecast
    /\ enhanced = NoEnhanced

isReady == \A slot \in Slots : uploader.file[slot] # NoFile

handleFileChange(type, chosen) ==
    /\ uploader.mounted
    /\ uploader' = [uploader EXCEPT !.file[type] = chosen, !.error = "null"]
    /\ UNCHANGED <<engineVars, planner>>

HandleFileChange == \E type \in Slots : \E chosen \in FilesFor(type) : handleFileChange(type, chosen)

\* the button is disabled while loading or while a file is missing, so the
\* early return of processFiles is not taken
processFiles ==
    /\ uploader.mounted
    /\ ~uploader.loading
    /\ isReady
    /\ Len(uploader.invocations) < MaxInvocations
    /\ uploader' = [uploader EXCEPT
           !.loading = TRUE,
           !.invocations = Append(@, [file |-> uploader.file,
                                      data |-> [slot \in Slots |-> <<>>],
                                      filesProcessed |-> 0,
                                      parse |-> [slot \in Slots |-> "pending"]])]
    /\ UNCHANGED <<engineVars, planner>>

\* checkComplete with every count of one or more read as "all processed"
allProcessed_AnyProcessed(filesProcessed) == filesProcessed >= 1

\* checkComplete: filesProcessed === totalFiles
allProcessed(filesProcessed) == filesProcessed = totalFiles

\* complete: (results) => { xData = results.data; checkComplete(); }
complete(n, slot) ==
    /\ n \in 1..Len(uploader.invocations)
    /\ uploader.invocations[n].parse[slot] = "pending"
    /\ LET inv == uploader.invocations[n]
           data == [inv.data EXCEPT ![slot] = Rows(inv.file[slot])]
           filesProcessed == inv.filesProcessed + 1
           after == [inv EXCEPT !.parse[slot] = "complete", !.data = data,
                                !.filesProcessed = filesProcessed]
       IN  IF allProcessed(filesProcessed)
           THEN uploader' = [uploader EXCEPT
                    !.invocations[n] = after,
                    !.loaded = Append(@, [invocation |-> n, bids |-> data["bids"],
                                          reviews |-> data["reviews"],
                                          schedule |-> data["schedule"]]),
                    !.loading = FALSE,
                    !.mounted = FALSE]
           ELSE uploader' = [uploader EXCEPT !.invocations[n] = after]
    /\ UNCHANGED <<engineVars, planner>>

Complete == \E n \in 1..MaxInvocations : \E slot \in Slots : complete(n, slot)

ErrorOf(slot) ==
    IF slot = "bids" THEN "Error parsing Bids CSV"
    ELSE IF slot = "reviews" THEN "Error parsing Reviews CSV"
    ELSE "Error parsing Schedule CSV"

\* error: (err) => { setError(...); setLoading(false); }
error(n, slot) ==
    /\ n \in 1..Len(uploader.invocations)
    /\ uploader.invocations[n].parse[slot] = "pending"
    /\ uploader' = [uploader EXCEPT !.invocations[n].parse[slot] = "error",
                                    !.error = ErrorOf(slot),
                                    !.loading = FALSE]
    /\ UNCHANGED <<engineVars, planner>>

Error == \E n \in 1..MaxInvocations : \E slot \in Slots : error(n, slot)

NextUploader == HandleFileChange \/ processFiles \/ Complete \/ Error

SpecUploader == InitUploader /\ [][NextUploader]_vars

\* the calls of onDataLoaded made by the n-th invocation
CallsOf(n) == {c \in 1..Len(uploader.loaded) : uploader.loaded[c].invocation = n}

\* a parse of the n-th invocation reports an error in this step
ErrorReported(n) ==
    /\ n <= Len(uploader.invocations)
    /\ \E slot \in Slots :
          /\ uploader.invocations[n].parse[slot] = "pending"
          /\ uploader'.invocations[n].parse[slot] = "error"

\* C29: for one invocation of processFiles with all three files selected, in
\* whatever order the three parse callbacks arrive, onDataLoaded is called at
\* most once, only after all three parses have completed, and with the
\* results of all three; if one of the three reports an error, onDataLoaded
\* is not called for the invocation and loading is set back to false
C29_LoadedOnceAfterAllThree ==
    /\ [](\A n \in 1..Len(uploader.invocations) :
             LET inv == uploader.invocations[n]
             IN  /\ Cardinality(CallsOf(n)) <= 1
                 /\ \A c \in CallsOf(n) :
                       /\ \A slot \in Slots : inv.parse[slot] = "complete"
                       /\ uploader.loaded[c].bids = Rows(inv.file["bids"])
                       /\ uploader.loaded[c].reviews = Rows(inv.file["reviews"])
                       /\ uploader.loaded[c].schedule = Rows(inv.file["schedule"])
                 /\ (\A slot \in Slots : inv.parse[slot] = "complete") => CallsOf(n) # {}
                 /\ (\E slot \in Slots : inv.parse[slot] = "error") => CallsOf(n) = {})
    /\ [][\A n \in 1..MaxInvocations : ErrorReported(n) => ~uploader'.loading]_vars

\* a first invocation ended by an error with its other parses complete, and
\* a second one that called onDataLoaded with its three results, the
\* schedule parsed first and the bids last
C29_Witness ==
    /\ Len(uploader.invocations) = 2
    /\ uploader.invocations[1].parse["reviews"] = "error"
    /\ uploader.invocations[1].parse["bids"] = "complete"
    /\ uploader.invocations[1].parse["schedule"] = "complete"
    /\ CallsOf(1) = {}
    /\ Cardinality(CallsOf(2)) = 1
    /\ uploader.loaded[1].bids = Rows("bids.csv")
    /\ uploader.loaded[1].schedule = Rows("schedule.csv")
    /\ ~uploader.loading

\* ---------------------------------------------------------------------
\* SchedulePlanner.  The page renders the planner only while schedule data
\* is loaded and the planner view is chosen, and loads schedule data only
\* from the uploader, so a changed availableCourses reaches the planner
\* through a mount.  The MMM preference is a separate piece of state.

Course(courseId, section, credits) ==
    [courseId |-> courseId, section |-> section, credits |-> credits]

Finance31 == Course("FINC-430", "31", 1)
Finance32 == Course("FINC-430", "32", 1)
Marketing61 == Course("MKTG-450", "61", 1)

\* the schedules processSchedule hands to the planner
Schedules ==
    {<<Finance31, Finance32, Marketing61>>, <<Finance32, Marketing61>>, <<Marketing61>>}

\* localStorage.getItem(SAVED_PLAN_KEY) === null
NoItem == [present |-> FALSE, ids |-> <<>>]

\* the item localStorage.setItem(SAVED_PLAN_KEY, JSON.stringify(ids)) leaves,
\* as JSON.parse reads it back
Item(ids) == [present |-> TRUE, ids |-> ids]

\* c.courseId === courseId, the section not compared
sameCourse_SectionIgnored(c, id) == c.courseId = id.courseId

\* c.courseId === courseId && c.section === section
sameCourse(c, id) == c.courseId = id.courseId /\ c.section = id.section

\* selectedCourses.map((c) => ({ courseId: c.courseId, section: c.section }))
toSave(courses) ==
    [i \in 1..Len(courses) |-> [courseId |-> courses[i].courseId, section |-> courses[i].section]]

\* savedIds.map(id => availableCourses.find(...)).filter(c => c !== undefined)
RECURSIVE matched(_, _)
matched(savedIds, availableCourses) ==
    IF Len(savedIds) = 0 THEN <<>>
    ELSE LET hits == SelectSeq(availableCourses, LAMBDA c : sameCourse(c, Head(savedIds)))
         IN  (IF Len(hits) > 0 THEN <<hits[1]>> ELSE <<>>)
                \o matched(Tail(savedIds), availableCourses)

\* the state after the first render and the effect that loads the saved plan
Mounted(availableCourses, storage) ==
    LET plan == IF storage.present THEN matched(storage.ids, availableCourses) ELSE <<>>
    IN  [availableCourses |-> availableCourses,
         selectedCourses |-> <<>>,
         viewMode |-> "edit",
         savedPlan |-> plan,
         hasSavedPlan |-> IF storage.present THEN Len(plan) > 0 ELSE FALSE,
         storage |-> storage]

InitPlanner ==
    /\ planner \in {Mounted(courses, NoItem) : courses \in Schedules}
    /\ uploader = NoUploader
    /\ historicalBids = <<>>
    /\ rating = 0
    /\ meetingTime = NoMeetingTime
    /\ campus = ""
    /\ currentTerm \in CurrentTerms
    /\ roundoff = FALSE
    /\ pc = "idle"
    /\ forecasts = <<>>
    /\ strategyNotes = <<>>
    /\ overallRecommendation = ""
    /\ trendInput = NoTrendInput
    /\ trendResult = NoTrendResult
    /\ lookup = NoLookup
    /\ stats = NoStats
    /\ earlier = NoForecast
    /\ enhanced = NoEnhanced

\* the view is left and entered again, or data is reset and loaded again
Mount ==
    /\ \E courses \in Schedules : planner' = Mounted(courses, planner.storage)
    /\ UNCHANGED <<engineVars, uploader>>

Offered == {planner.availableCourses[i] : i \in 1..Len(planner.availableCourses)}

addCourse ==
    /\ planner.viewMode = "edit"
    /\ \E course \in Offered :
          /\ ~\E i \in 1..Len(planner.selectedCourses) :
                  sameCourse(planner.selectedCourses[i], course)
          /\ planner' = [planner EXCEPT !.selectedCourses = Append(@, course)]
    /\ UNCHANGED <<engineVars, uploader>>

removeCourse ==
    /\ planner.viewMode = "edit"
    /\ \E k \in 1..Len(planner.selectedCourses) :
          planner' = [planner EXCEPT !.selectedCourses =
                         SelectSeq(@, LAMBDA c : ~sameCourse(c, planner.selectedCourses[k]))]
    /\ UNCHANGED <<engineVars, uploader>>

savePlan ==
    /\ planner.viewMode = "edit"
    /\ Len(planner.selectedCourses) > 0
    /\ planner' = [planner EXCEPT !.storage = Item(toSave(planner.selectedCourses)),
                                  !.savedPlan = planner.selectedCourses,
                                  !.hasSavedPlan = TRUE,
                                  !.viewMode = "saved"]
    /\ UNCHANGED <<engineVars, uploader>>

clearSavedPlan ==
    /\ planner.viewMode = "saved"
    /\ planner' = [planner EXCEPT !.storage = NoItem,
                                  !.savedPlan = <<>>,
                                  !.hasSavedPlan = FALSE,
                                  !.viewMode = "edit"]
    /\ UNCHANGED <<engineVars, uploader>>

editSavedPlan ==
    /\ planner.viewMode = "saved"
    /\ planner' = [planner EXCEPT !.selectedCourses = planner.savedPlan,
                                  !.viewMode = "edit"]
    /\ UNCHANGED <<engineVars, uploader>>

setViewMode ==
    /\ planner.hasSavedPlan
    /\ \E mode \in {"edit", "saved"} :
          /\ mode # planner.viewMode
          /\ planner' = [planner EXCEPT !.viewMode = mode]
    /\ UNCHANGED <<engineVars, uploader>>

NextPlanner ==
    Mount \/ addCourse \/ removeCourse \/ savePlan \/ clearSavedPlan \/ editSavedPlan
        \/ setViewMode

SpecPlanner == InitPlanner /\ [][NextPlanner]_vars

\* a plan of one course or more is stored under the saved-plan key
PlanStored == planner.storage.present /\ Len(planner.storage.ids) > 0

SavedViewHasPlan ==
    planner.viewMode = "saved" => (planner.hasSavedPlan /\ Len(planner.savedPlan) > 0)

\* C30: in every state of SchedulePlanner the UI can reach, viewMode 'saved'
\* implies that hasSavedPlan is true and savedPlan is not empty, and
\* hasSavedPlan is true exactly when a plan that is not empty is stored
\* under the saved-plan key
C30_SavedFlagIffPlanStored ==
    /\ SavedViewHasPlan
    /\ planner.hasSavedPlan <=> PlanStored

\* C30 as the planner keeps it: viewMode 'saved' implies that hasSavedPlan
\* is true and savedPlan is not empty; hasSavedPlan is true exactly when
\* savedPlan is not empty, and then a plan is stored under the key and
\* savedPlan holds the offered courses of it, in its order; a stored plan
\* with no course among availableCourses leaves hasSavedPlan false
C30_SavedFlagIffPlanMatched ==
    /\ SavedViewHasPlan
    /\ planner.hasSavedPlan <=> Len(planner.savedPlan) > 0
    /\ planner.hasSavedPlan
          => /\ PlanStored
             /\ \A i \in 1..Len(planner.savedPlan) :
                   /\ planner.savedPlan[i] \in Offered
                   /\ \E j \in 1..Len(planner.storage.ids) :
                         planner.storage.ids[j] = toSave(planner.savedPlan)[i]
    /\ (PlanStored /\ ~planner.hasSavedPlan)
          => \A j \in 1..Len(planner.storage.ids) :
                ~\E c \in Offered : toSave(<<c>>)[1] = planner.storage.ids[j]

\* a plan of section 31 is stored and the schedule mounted offers section 32
\* only: no saved plan is shown
C30_Witness ==
    /\ planner.storage = Item(toSave(<<Finance31>>))
    /\ planner.availableCourses = <<Finance32, Marketing61>>
    /\ ~planner.hasSavedPlan
    /\ planner.savedPlan = <<>>
    /\ planner.viewMode = "edit"
    /\ Len(planner.selectedCourses) = 2

====
